---- MODULE Spec2Model ----
(***************************************************************************)
(* Katalogin: product catalog with an admin Dashboard and a public         *)
(* Catalog (src/src/App.jsx, src/unnamed/part_000).                        *)
(*                                                                         *)
(* JavaScript strings are modelled as sequences of one-character strings,  *)
(* so that substring, toUpperCase, toLowerCase, trim, includes and         *)
(* padStart are computed character by character.  null/undefined is the    *)
(* value Null, which is no string of characters.                           *)
(***************************************************************************)
EXTENDS Integers, Sequences, FiniteSets, Bags, TLC

VARIABLES
    \* code generator seen alone (Dashboard.generateCodeForCategory)
    genProducts, genCat, genCode,
    \* one mounted page (Dashboard or Catalog) and what it renders
    page, viewProducts, search, filtered, grouped, sections,
    \* the products table, and the Dashboard of each browser session
    store, nextId, products, form, loading, save, deleting, fetching,
    \* the utilities seen alone (normalizeAffiliate, formatPrice)
    affUrl, affOut, affAgain, price, priceVariant, localeSep, priceOut,
    \* the earliest variant: generateCode alone, handleSave, the Catalog
    earlyCat, earlyIndex, earlyCode, earlyTable, earlySave,
    earlyProducts, earlySearch, earlyFiltered, earlyPrices,
    \* the brands table, and the brand input and brand step of each Dashboard
    brandTable, brandNextId, brandProducts, brandsList, brandUi, brandSave, brandFetch,
    \* the products table seen by the public Catalog, and the Catalog
    shopTable, shopNextId, catProducts, catFetch, catSeen,
    \* the session, the auth context, the location and the page on the screen
    authVariant, session, user, authLoading, authInit, events, navPending,
    visited, path, screen,
    \* the table of products with their images, the Dashboard's list, form,
    \* chosen file, save and mount fetch
    imgTable, imgNextId, imgProducts, imgForm, imgFile, imgSave, imgFetch,
    \* whether the session's expires_at has passed, whether AuthProvider is
    \* mounted, and the check of the auto-logout interval
    expired, authMounted, check

genVars == <<genProducts, genCat, genCode>>
viewVars == <<page, viewProducts, search, filtered, grouped, sections>>
dashVars == <<store, nextId, products, form, loading, save, deleting, fetching>>
utilVars == <<affUrl, affOut, affAgain, price, priceVariant, localeSep, priceOut>>
earlyVars == <<earlyCat, earlyIndex, earlyCode, earlyTable, earlySave,
               earlyProducts, earlySearch, earlyFiltered, earlyPrices>>
brandVars == <<brandTable, brandNextId, brandProducts, brandsList, brandUi,
               brandSave, brandFetch>>
shopVars == <<shopTable, shopNextId, catProducts, catFetch, catSeen>>
authVars == <<authVariant, session, user, authLoading, authInit, events, navPending,
              visited, path, screen>>
imageVars == <<imgTable, imgNextId, imgProducts, imgForm, imgFile, imgSave, imgFetch>>
checkVars == <<expired, authMounted, check>>
extVars == <<utilVars, earlyVars, brandVars, shopVars, authVars, imageVars, checkVars>>
vars == <<genVars, viewVars, dashVars, extVars>>

----------------------------------------------------------------------------
(* Strings *)

Null == <<"null">>

LowerLetters ==
    <<"a","b","c","d","e","f","g","h","i","j","k","l","m",
      "n","o","p","q","r","s","t","u","v","w","x","y","z">>
UpperLetters ==
    <<"A","B","C","D","E","F","G","H","I","J","K","L","M",
      "N","O","P","Q","R","S","T","U","V","W","X","Y","Z">>
Digits == <<"0","1","2","3","4","5","6","7","8","9">>
Whitespace == {" ", "\t"}

Range(s) == {s[i] : i \in 1..Len(s)}
Min(a, b) == IF a < b THEN a ELSE b

\* x || y on strings: null, undefined and '' are falsy
OrElse(x, y) == IF x = Null \/ x = <<>> THEN y ELSE x

\* the upper-case and the lower-case form of each letter
UpperOf ==
    [ch \in Range(LowerLetters) |->
        UpperLetters[CHOOSE i \in 1..Len(LowerLetters) : LowerLetters[i] = ch]]
LowerOf ==
    [ch \in Range(UpperLetters) |->
        LowerLetters[CHOOSE i \in 1..Len(UpperLetters) : UpperLetters[i] = ch]]
UpperChar(ch) == IF ch \in DOMAIN UpperOf THEN UpperOf[ch] ELSE ch
LowerChar(ch) == IF ch \in DOMAIN LowerOf THEN LowerOf[ch] ELSE ch
toUpperCase(s) == [i \in 1..Len(s) |-> UpperChar(s[i])]
toLowerCase(s) == [i \in 1..Len(s) |-> LowerChar(s[i])]

\* s.substring(from, to) with 0 <= from <= to, JavaScript's 0-based half-open range
substring(s, from, to) == SubSeq(s, Min(from, Len(s)) + 1, Min(to, Len(s)))

RECURSIVE trimStart(_)
trimStart(s) ==
    IF s # <<>> /\ Head(s) \in Whitespace THEN trimStart(Tail(s)) ELSE s
RECURSIVE trimEnd(_)
trimEnd(s) ==
    IF s # <<>> /\ s[Len(s)] \in Whitespace
    THEN trimEnd(SubSeq(s, 1, Len(s) - 1)) ELSE s
trim(s) == trimEnd(trimStart(s))

\* s.includes(q)
includes(s, q) ==
    \E k \in 0..(Len(s) - Len(q)) : SubSeq(s, k + 1, k + Len(q)) = q

\* String(n) for a natural number n
RECURSIVE String(_)
String(n) ==
    IF n < 10 THEN <<Digits[n + 1]>>
    ELSE String(n \div 10) \o <<Digits[(n % 10) + 1]>>

RECURSIVE padStart(_, _, _)
padStart(s, width, ch) ==
    IF Len(s) >= width THEN s ELSE padStart(<<ch>> \o s, width, ch)

----------------------------------------------------------------------------
(* Category names *)

Shirts == <<"S","h","i","r","t","s">>
TShirts == <<"T","-","S","h","i","r","t","s">>
Jackets == <<"J","a","c","k","e","t","s">>
Pants == <<"P","a","n","t","s">>
Accessories == <<"A","c","c","e","s","s","o","r","i","e","s">>
Shoes == <<"S","h","o","e","s">>
Bags == <<"B","a","g","s">>
Other == <<"O","t","h","e","r">>
OTH == <<"O","T","H">>

\* const categories = [...] of the Dashboard, categoriesOrder of the Catalog
categories == <<Shirts, TShirts, Jackets, Pants, Accessories, Shoes, Bags>>
categoriesOrder == <<Shirts, TShirts, Jackets, Pants, Accessories, Shoes, Bags>>

----------------------------------------------------------------------------
(* Dashboard.generateCodeForCategory *)

PrefixLen == 3
PadWidth == 3

\* products.filter(p => p.category === cat).length
CountInCategory(cat, prods) ==
    Cardinality({i \in 1..Len(prods) : prods[i].category = cat})

\* the numbering of the earliest variant (part_000, handleSave): the index is the
\* number of all products, whatever their category
generateCodeOverAll(cat, prods) ==
    toUpperCase(substring(OrElse(cat, OTH), 0, PrefixLen))
        \o padStart(String(Len(prods) + 1), PadWidth, "0")

generateCodeForCategory(cat, prods) ==
    LET prefix == toUpperCase(substring(OrElse(cat, OTH), 0, PrefixLen))
        count == CountInCategory(cat, prods)
    IN  prefix \o padStart(String(count + 1), PadWidth, "0")

----------------------------------------------------------------------------
(* The code generator over arbitrary product lists *)

MaxGenLen == 3

\* categories given to the generator: known names, a name shorter than the
\* prefix and in lower case, the empty string, and no category at all
GenCategories == {Shirts, Pants, TShirts, <<"a","b">>, <<>>, Null}

\* product lists long enough for the suffix to take two, three and four digits
PadRuns == {9, 99, 999}

GenLists ==
    UNION {[1..n -> [category : GenCategories]] : n \in 0..MaxGenLen}
    \cup {[i \in 1..n |-> [category |-> c]] : n \in PadRuns, c \in {Shirts, <<>>}}

GenInit ==
    /\ genProducts \in GenLists
    /\ genCat = Null
    /\ genCode = <<>>

\* payload.code of a new product: generateCodeForCategory(form.category)
GenerateCode(cat) ==
    /\ genCat' = cat
    /\ genCode' = generateCodeForCategory(cat, genProducts)
    /\ UNCHANGED genProducts
    /\ UNCHANGED <<viewVars, dashVars, extVars>>

GenNext == \E cat \in GenCategories : GenerateCode(cat)

----------------------------------------------------------------------------
(* Search filter and grouped view of the Dashboard and of the Catalog.       *)
(* A product is [id, name, brand, code, category]; brand is the resolved     *)
(* brand name, p.brands?.name (p.brand in the consolidated variant).         *)

\* the callback of products.filter, given q = (search||'').trim().toLowerCase()
Matches(p, q) ==
    IF q = <<>> THEN TRUE
    ELSE \/ includes(toLowerCase(OrElse(p.name, <<>>)), q)
         \/ includes(toLowerCase(OrElse(p.brand, <<>>)), q)
         \/ includes(toLowerCase(OrElse(p.code, <<>>)), q)

\* a filter that looks at the name only
FilterNameOnly(prods, s) ==
    SelectSeq(prods, LAMBDA p :
        LET q == toLowerCase(trim(OrElse(s, <<>>)))
        IN  q = <<>> \/ includes(toLowerCase(OrElse(p.name, <<>>)), q))

\* a filter that asks whether the query includes the field
FilterSwapped(prods, s) ==
    SelectSeq(prods, LAMBDA p :
        LET q == toLowerCase(trim(OrElse(s, <<>>)))
        IN  \/ q = <<>>
            \/ includes(q, toLowerCase(OrElse(p.name, <<>>)))
            \/ includes(q, toLowerCase(OrElse(p.brand, <<>>)))
            \/ includes(q, toLowerCase(OrElse(p.code, <<>>))))

\* a filter that does not trim the query
FilterUntrimmed(prods, s) ==
    SelectSeq(prods, LAMBDA p : Matches(p, toLowerCase(OrElse(s, <<>>))))

\* Dashboard: const filtered = products.filter(...)
DashboardFiltered(prods, s) ==
    SelectSeq(prods, LAMBDA p : Matches(p, toLowerCase(trim(OrElse(s, <<>>)))))

\* Catalog: const filtered = products.filter(...)
CatalogFiltered(prods, s) ==
    SelectSeq(prods, LAMBDA p : Matches(p, toLowerCase(trim(s))))

\* grouped is a JavaScript object: its keys in insertion order, and their arrays
\* const grouped = {}; order.forEach(c => grouped[c] = [])
GroupedInit(order) ==
    [keys |-> order, items |-> [c \in Range(order) |-> <<>>]]

\* the callback of filtered.forEach
GroupedPush(g, p, order) ==
    LET cat == IF p.category \in Range(order) THEN p.category ELSE Other
        g1 == IF cat \notin Range(g.keys)
              THEN [keys |-> Append(g.keys, cat), items |-> g.items @@ (cat :> <<>>)]
              ELSE g
    IN  [g1 EXCEPT !.items[cat] = Append(@, p)]

RECURSIVE GroupedFrom(_, _, _)
GroupedFrom(g, list, order) ==
    IF list = <<>> THEN g
    ELSE GroupedFrom(GroupedPush(g, Head(list), order), Tail(list), order)

\* a grouping whose keys are created on first use only
GroupedLazy(list, order) ==
    GroupedFrom([keys |-> <<>>, items |-> <<>>], list, order)

\* a grouping that files every product under its own category
GroupedByOwn(list, order) ==
    LET own == {list[i].category : i \in 1..Len(list)} \ Range(order)
        extra == CHOOSE s \in [1..Cardinality(own) -> own] : Range(s) = own
    IN  [keys |-> order \o extra,
         items |-> [c \in Range(order) \cup own |->
                      SelectSeq(list, LAMBDA p : p.category = c)]]

\* a grouping that puts a new product first in its array
GroupedUnshift(list, order) ==
    LET g == GroupedFrom(GroupedInit(order), list, order)
    IN  [g EXCEPT !.items = [c \in DOMAIN g.items |->
            [i \in 1..Len(g.items[c]) |-> g.items[c][Len(g.items[c]) + 1 - i]]]]

\* Dashboard and Catalog: grouped, after filtered.forEach
Grouped(list, order) == GroupedFrom(GroupedInit(order), list, order)

\* sections that keep the empty categories
SectionsAll(g) ==
    [i \in 1..Len(g.keys) |-> [cat |-> g.keys[i], items |-> g.items[g.keys[i]]]]

\* Object.keys(grouped).map(cat => items.length === 0 ? null : <section>)
Sections(g) ==
    LET shown == SelectSeq(g.keys, LAMBDA c : Len(g.items[c]) # 0)
    IN  [i \in 1..Len(shown) |-> [cat |-> shown[i], items |-> g.items[shown[i]]]]

Filtered(pg, prods, s) ==
    IF pg = "Dashboard" THEN DashboardFiltered(prods, s) ELSE CatalogFiltered(prods, s)

Order(pg) == IF pg = "Dashboard" THEN categories ELSE categoriesOrder

----------------------------------------------------------------------------
(* The pages over arbitrary fetched product lists *)

MaxViewLen == 2

RedTee == <<"R","e","d"," ","T","e","e">>
BlueTee == <<"B","l","u","e"," ","T","e","e">>
Teva == <<"T","e","v","a">>
SHI001 == <<"S","H","I","0","0","1">>
Hats == <<"H","a","t","s">>

\* name, brand and code of the rows: each field set alone, all set
ViewFields ==
    { <<RedTee, Null, Null>>, <<Null, Teva, Null>>,
      <<Null, Null, SHI001>>, <<BlueTee, Teva, SHI001>> }
\* their categories: two known names, an unknown name, the empty name, none
ViewCategories == {Shirts, TShirts, Hats, <<>>, Null}

\* what the user types: nothing, blanks, a word in lower case, a word after a
\* blank, a word in upper case between blanks, a word of a code
Queries ==
    { <<>>, <<" "," ">>, <<"t","e","e">>, <<" ","T","e","e">>,
      <<" ","T","E","V"," ">>, <<"s","h","i">> }

\* a fetch result: rows with distinct ids, here their positions
ViewLists ==
    UNION { { [i \in 1..n |-> [id |-> i, name |-> r[i][1][1], brand |-> r[i][1][2],
                               code |-> r[i][1][3], category |-> r[i][2]]] :
              r \in [1..n -> ViewFields \X ViewCategories] } :
            n \in 0..MaxViewLen }

\* what a render computes from products and search
Rendered(pg, prods, s) ==
    /\ filtered' = Filtered(pg, prods, s)
    /\ grouped' = Grouped(filtered', Order(pg))
    /\ sections' = Sections(grouped')

ViewInit ==
    /\ page \in {"Dashboard", "Catalog"}
    /\ viewProducts \in ViewLists
    /\ search = <<>>
    /\ filtered = Filtered(page, viewProducts, <<>>)
    /\ grouped = Grouped(filtered, Order(page))
    /\ sections = Sections(grouped)

\* onChange of the Dashboard's search input: setSearch, then the render
DashboardSetSearch(q) ==
    /\ page = "Dashboard"
    /\ search' = q
    /\ Rendered("Dashboard", viewProducts, q)
    /\ UNCHANGED <<page, viewProducts>>
    /\ UNCHANGED <<genVars, dashVars, extVars>>

\* onChange of the Catalog's search input: setSearch, then the render
CatalogSetSearch(q) ==
    /\ page = "Catalog"
    /\ search' = q
    /\ Rendered("Catalog", viewProducts, q)
    /\ UNCHANGED <<page, viewProducts>>
    /\ UNCHANGED <<genVars, dashVars, extVars>>

ViewNext ==
    \E q \in Queries : DashboardSetSearch(q) \/ CatalogSetSearch(q)

----------------------------------------------------------------------------
(* The Dashboard of each session over the shared products table.             *)
(* A row is [id, code, category].  A request to the table is in flight from  *)
(* the step that sends it to the step that takes its answer; a write is      *)
(* applied when its answer is taken, a fetch reads the table at one step     *)
(* (served) and its answer is taken at a later one.                          *)

\* rows ever inserted, and requests of one session other than its save
MaxId == 2
MaxInFlight == 1

Sessions == {"A", "B"}

\* the categories the user selects in the form
FormCategories == {Shirts, Pants}

Reverse(list) == [i \in 1..Len(list) |-> list[Len(list) + 1 - i]]

\* form.id of a product that is not stored yet: null, which `if (form.id)` reads
\* as false, as it reads no id of a stored row (the identity column starts at 1)
NoId == 0

\* useState({ id:null, code:'', ..., category:'Shirts', ... })
EmptyForm == [id |-> NoId, code |-> <<>>, category |-> Shirts]

NoSave == [phase |-> "idle", form |-> EmptyForm, products |-> <<>>, data |-> <<>>]
NoFetch == [sent |-> 0, served |-> EmptyBag]

\* select('*').order('created_at', { ascending: false })
SelectProducts == Reverse(store)

\* a code generated at every save, whatever code the form holds
PayloadCodeGenerated(sv) ==
    generateCodeForCategory(sv.form.category, sv.products)

\* a code counted over the table as it is when the row is written
PayloadCodeFromStore(sv) ==
    OrElse(sv.form.code, generateCodeForCategory(sv.form.category, SelectProducts))

\* payload.code: form.code || generateCodeForCategory(form.category), over the
\* products of the render that made the handler
PayloadCode(sv) ==
    OrElse(sv.form.code, generateCodeForCategory(sv.form.category, sv.products))

\* payload.category: form.category || 'Other'
PayloadCategory(sv) == OrElse(sv.form.category, Other)

\* from('products').insert([payload])
StoreInsert(code, category) ==
    /\ store' = Append(store, [id |-> nextId, code |-> code, category |-> category])
    /\ nextId' = nextId + 1

\* an update that adds a row as well
StoreUpdateAndInsert(id, code, category) ==
    /\ store' = Append([i \in 1..Len(store) |->
                           IF store[i].id = id
                           THEN [id |-> id, code |-> code, category |-> category]
                           ELSE store[i]],
                       [id |-> nextId, code |-> code, category |-> category])
    /\ nextId' = nextId + 1

\* from('products').update(payload).eq('id', id)
StoreUpdate(id, code, category) ==
    /\ store' = [i \in 1..Len(store) |->
                    IF store[i].id = id
                    THEN [id |-> id, code |-> code, category |-> category]
                    ELSE store[i]]
    /\ UNCHANGED nextId

\* from('products').delete().eq('id', id)
StoreDelete(id) ==
    /\ store' = SelectSeq(store, LAMBDA r : r.id # id)
    /\ UNCHANGED nextId

\* requests of session s that will make it fetch, and its fetches in flight
InFlight(s) ==
    Cardinality(deleting[s]) + fetching[s].sent + BagCardinality(fetching[s].served)

\* creates sent and not yet written
CreatesInFlight ==
    Cardinality({s \in Sessions : save[s].phase = "writing" /\ save[s].form.id = NoId})

DashInit(mounted) ==
    /\ store = <<>>
    /\ nextId = 1
    /\ products = [s \in Sessions |-> <<>>]
    /\ form = [s \in Sessions |-> EmptyForm]
    /\ save = [s \in Sessions |-> NoSave]
    /\ deleting = [s \in Sessions |-> {}]
    \* useEffect(() => { if (!user) return; fetchProducts(); ... }, [user])
    /\ loading = [s \in Sessions |-> s \in mounted]
    /\ fetching = [s \in Sessions |->
                      IF s \in mounted THEN [sent |-> 1, served |-> EmptyBag] ELSE NoFetch]

\* onChange of the category select
SetCategory(s, c) ==
    /\ form' = [form EXCEPT ![s].category = c]
    /\ form'[s] # form[s]
    /\ UNCHANGED <<store, nextId, products, loading, save, deleting, fetching>>
    /\ UNCHANGED <<genVars, viewVars, extVars>>

\* onClick of Edit on a listed product
handleEdit(s, p) ==
    /\ form' = [form EXCEPT ![s] = [id |-> p.id, code |-> p.code, category |-> p.category]]
    /\ form'[s] # form[s]
    /\ UNCHANGED <<store, nextId, products, loading, save, deleting, fetching>>
    /\ UNCHANGED <<genVars, viewVars, extVars>>

\* onClick of Reset
ResetForm(s) ==
    /\ form[s] # EmptyForm
    /\ form' = [form EXCEPT ![s] = EmptyForm]
    /\ UNCHANGED <<store, nextId, products, loading, save, deleting, fetching>>
    /\ UNCHANGED <<genVars, viewVars, extVars>>

\* handleSaveOrUpdate up to the write it sends (no file, no brand: nothing is
\* awaited before).  The submit button is disabled while loading; one save of
\* a session is followed at a time.  A create is started only while the table
\* has an id left for it.
handleSaveOrUpdate(s) ==
    /\ ~loading[s]
    /\ save[s].phase = "idle"
    /\ form[s].id = NoId => nextId + CreatesInFlight <= MaxId
    /\ loading' = [loading EXCEPT ![s] = TRUE]
    /\ save' = [save EXCEPT ![s] =
                   [phase |-> "writing", form |-> form[s],
                    products |-> products[s], data |-> <<>>]]
    /\ UNCHANGED <<store, nextId, products, form, deleting, fetching>>
    /\ UNCHANGED <<genVars, viewVars, extVars>>

\* the write is applied and answered: update or insert, then the form is
\* reset and fetchProducts is called
SaveWritten(s) ==
    /\ save[s].phase = "writing"
    /\ IF save[s].form.id # NoId
       THEN StoreUpdate(save[s].form.id, PayloadCode(save[s]), PayloadCategory(save[s]))
       ELSE StoreInsert(PayloadCode(save[s]), PayloadCategory(save[s]))
    /\ form' = [form EXCEPT ![s] = EmptyForm]
    /\ loading' = [loading EXCEPT ![s] = TRUE]
    /\ save' = [save EXCEPT ![s].phase = "fetching"]
    /\ UNCHANGED <<products, deleting, fetching>>
    /\ UNCHANGED <<genVars, viewVars, extVars>>

\* the fetch of the save reads the table
SaveFetchServed(s) ==
    /\ save[s].phase = "fetching"
    /\ save' = [save EXCEPT ![s].phase = "fetched", ![s].data = SelectProducts]
    /\ UNCHANGED <<store, nextId, products, form, loading, deleting, fetching>>
    /\ UNCHANGED <<genVars, viewVars, extVars>>

\* its answer: setProducts(data), setLoading(false), and the save ends with
\* setLoading(false)
SaveFetched(s) ==
    /\ save[s].phase = "fetched"
    /\ products' = [products EXCEPT ![s] = save[s].data]
    /\ loading' = [loading EXCEPT ![s] = FALSE]
    /\ save' = [save EXCEPT ![s] = NoSave]
    /\ UNCHANGED <<store, nextId, form, deleting, fetching>>
    /\ UNCHANGED <<genVars, viewVars, extVars>>

\* handleDelete, confirmed, up to the delete it sends
handleDelete(s, id) ==
    /\ \E i \in 1..Len(products[s]) : products[s][i].id = id
    /\ id \notin deleting[s]
    /\ InFlight(s) < MaxInFlight
    /\ deleting' = [deleting EXCEPT ![s] = @ \cup {id}]
    /\ UNCHANGED <<store, nextId, products, form, loading, save, fetching>>
    /\ UNCHANGED <<genVars, viewVars, extVars>>

\* the delete is applied and answered without error: fetchProducts is called
Deleted(s, id) ==
    /\ id \in deleting[s]
    /\ StoreDelete(id)
    /\ deleting' = [deleting EXCEPT ![s] = @ \ {id}]
    /\ loading' = [loading EXCEPT ![s] = TRUE]
    /\ fetching' = [fetching EXCEPT ![s].sent = @ + 1]
    /\ UNCHANGED <<products, form, save>>
    /\ UNCHANGED <<genVars, viewVars, extVars>>

\* the auth context hands the mounted Dashboard another user object (the
\* session is refreshed, the tab is shown again): the effect of [user] runs
\* again and calls fetchProducts
UserChanged(s) ==
    /\ InFlight(s) < MaxInFlight
    /\ loading' = [loading EXCEPT ![s] = TRUE]
    /\ fetching' = [fetching EXCEPT ![s].sent = @ + 1]
    /\ UNCHANGED <<store, nextId, products, form, save, deleting>>
    /\ UNCHANGED <<genVars, viewVars, extVars>>

\* a fetch of the mount, of a delete or of a change of user reads the table
FetchServed(s) ==
    /\ fetching[s].sent > 0
    /\ fetching' = [fetching EXCEPT ![s] =
                       [sent |-> @.sent - 1,
                        served |-> @.served (+) SetToBag({SelectProducts})]]
    /\ UNCHANGED <<store, nextId, products, form, loading, save, deleting>>
    /\ UNCHANGED <<genVars, viewVars, extVars>>

\* its answer: setProducts(data), setLoading(false)
Fetched(s, data) ==
    /\ BagIn(data, fetching[s].served)
    /\ products' = [products EXCEPT ![s] = data]
    /\ loading' = [loading EXCEPT ![s] = FALSE]
    /\ fetching' = [fetching EXCEPT ![s].served = @ (-) SetToBag({data})]
    /\ UNCHANGED <<store, nextId, form, save, deleting>>
    /\ UNCHANGED <<genVars, viewVars, extVars>>

SessionNext(s) ==
    \/ \E c \in FormCategories : SetCategory(s, c)
    \/ \E i \in 1..Len(products[s]) : handleEdit(s, products[s][i])
    \/ ResetForm(s)
    \/ handleSaveOrUpdate(s)
    \/ SaveWritten(s)
    \/ SaveFetchServed(s)
    \/ SaveFetched(s)
    \/ \E id \in 1..MaxId : handleDelete(s, id)
    \/ \E id \in deleting[s] : Deleted(s, id)
    \/ FetchServed(s)
    \/ \E data \in BagToSet(fetching[s].served) : Fetched(s, data)

----------------------------------------------------------------------------
(* One Dashboard over a table that already holds a product written by other  *)
(* means (the SQL editor, an import): its category need not be one the form  *)
(* offers.                                                                   *)

\* categories of the stored product: offered by the form, unknown, empty, none
StoredCategories == {Shirts, Hats, <<>>, Null}

StoredInit ==
    /\ store \in { <<[id |-> 1, code |-> generateCodeForCategory(c, <<>>),
                      category |-> c]>> : c \in StoredCategories }
    /\ nextId = 2
    /\ products = [s \in Sessions |-> <<>>]
    /\ form = [s \in Sessions |-> EmptyForm]
    /\ save = [s \in Sessions |-> NoSave]
    /\ deleting = [s \in Sessions |-> {}]
    /\ loading = [s \in Sessions |-> s = "A"]
    /\ fetching = [s \in Sessions |->
                      IF s = "A" THEN [sent |-> 1, served |-> EmptyBag] ELSE NoFetch]

\* what a session does that creates and edits products
EditNext(s) ==
    \/ \E c \in FormCategories : SetCategory(s, c)
    \/ \E i \in 1..Len(products[s]) : handleEdit(s, products[s][i])
    \/ ResetForm(s)
    \/ handleSaveOrUpdate(s)
    \/ SaveWritten(s)
    \/ SaveFetchServed(s)
    \/ SaveFetched(s)
    \/ FetchServed(s)
    \/ \E data \in BagToSet(fetching[s].served) : Fetched(s, data)

StoredNext == EditNext("A")

----------------------------------------------------------------------------
(* Brands: the brands table, the brand input of each Dashboard and the brand *)
(* step of a save (ensureBrandId).  A brand is [id, name]; a product is      *)
(* followed by its brand_id only, and every save is a create.  fetchBrands   *)
(* is not awaited by the save that calls it, so its answer can come after    *)
(* the next save has started.                                                *)

\* brands ever inserted, products ever inserted
MaxBrands == 2
MaxBrandProducts == 2

TevaLower == <<"t","e","v","a">>
TevaSpace == <<"T","e","v","a"," ">>

\* what the user types into the brand input
BrandNames == {<<>>, Teva, TevaLower, TevaSpace}

\* useState of form.brand_name, brandQuery and selectedBrandId
EmptyBrandUi == [brand_name |-> <<>>, query |-> <<>>, selected |-> NoId]

\* the save of a session: its phase, what it captured, the brand id
\* ensureBrandId returned, and whether its insert of a brand gave an error
NoBrandSave ==
    [phase |-> "idle", name |-> <<>>, selected |-> NoId, brands |-> <<>>,
     brandId |-> NoId, error |-> FALSE]

BrandInit ==
    /\ brandTable = <<>>
    /\ brandNextId = 1
    /\ brandProducts = <<>>
    /\ brandsList = [s \in Sessions |-> <<>>]
    /\ brandUi = [s \in Sessions |-> EmptyBrandUi]
    /\ brandSave = [s \in Sessions |-> NoBrandSave]
    \* useEffect(() => { if (!user) return; fetchProducts(); fetchBrands(); }, [user])
    /\ brandFetch = [s \in Sessions |->
                        IF s = "A" THEN [sent |-> 1, served |-> EmptyBag] ELSE NoFetch]

\* const found = brands.find(b => b.name.toLowerCase() === brandName.trim().toLowerCase())
FoundBrands(brands, brandName) ==
    SelectSeq(brands, LAMBDA b : toLowerCase(b.name) = toLowerCase(trim(brandName)))

\* ensureBrandId needs no insert: no brand name, a selected brand, a brand found
Resolved(ui, brands) ==
    ui.brand_name = <<>> \/ ui.selected # NoId \/ FoundBrands(brands, ui.brand_name) # <<>>

\* the brand id ensureBrandId returns without an insert
ResolvedId(ui, brands) ==
    IF ui.brand_name = <<>> THEN NoId
    ELSE IF ui.selected # NoId THEN ui.selected
    ELSE Head(FoundBrands(brands, ui.brand_name)).id

\* brand inserts sent and not yet answered
BrandInsertsInFlight ==
    Cardinality({s \in Sessions : brandSave[s].phase = "branding"})

\* product inserts of saves that have started
BrandSavesInFlight ==
    Cardinality({s \in Sessions : brandSave[s].phase \in {"branding", "writing"}})

\* onChange of the brand input
BrandInput(s, n) ==
    /\ brandUi[s].brand_name # n
    /\ brandUi' = [brandUi EXCEPT ![s] = [brand_name |-> n, query |-> n, selected |-> NoId]]
    /\ UNCHANGED <<brandTable, brandNextId, brandProducts, brandsList, brandSave, brandFetch>>
    /\ UNCHANGED <<genVars, viewVars, dashVars, utilVars, earlyVars, shopVars, authVars, imageVars, checkVars>>

\* onMouseDown of a suggestion: a brand of the list whose name holds brandQuery
pickBrandSuggestion(s, b) ==
    /\ brandUi[s].query # <<>>
    /\ includes(toLowerCase(b.name), toLowerCase(brandUi[s].query))
    /\ brandUi' = [brandUi EXCEPT ![s] = [brand_name |-> b.name, query |-> <<>>,
                                           selected |-> b.id]]
    /\ UNCHANGED <<brandTable, brandNextId, brandProducts, brandsList, brandSave, brandFetch>>
    /\ UNCHANGED <<genVars, viewVars, dashVars, utilVars, earlyVars, shopVars, authVars, imageVars, checkVars>>

\* handleSaveOrUpdate with form.id null and no file, through ensureBrandId up
\* to the first request it sends: the insert of the brand, or the insert of
\* the product when the brand needs none.  The submit button is disabled
\* while loading.
SaveWithBrand(s) ==
    /\ brandSave[s].phase = "idle"
    /\ Len(brandProducts) + BrandSavesInFlight < MaxBrandProducts
    /\ ~Resolved(brandUi[s], brandsList[s])
           => brandNextId + BrandInsertsInFlight <= MaxBrands
    /\ brandSave' = [brandSave EXCEPT ![s] =
           IF Resolved(brandUi[s], brandsList[s])
           THEN [phase |-> "writing", name |-> brandUi[s].brand_name,
                 selected |-> brandUi[s].selected, brands |-> brandsList[s],
                 brandId |-> ResolvedId(brandUi[s], brandsList[s]), error |-> FALSE]
           ELSE [phase |-> "branding", name |-> brandUi[s].brand_name,
                 selected |-> brandUi[s].selected, brands |-> brandsList[s],
                 brandId |-> NoId, error |-> FALSE]]
    /\ UNCHANGED <<brandTable, brandNextId, brandProducts, brandsList, brandUi, brandFetch>>
    /\ UNCHANGED <<genVars, viewVars, dashVars, utilVars, earlyVars, shopVars, authVars, imageVars, checkVars>>

\* from('brands').insert([{ name: brandName.trim() }]).select('id').single()
\* is applied and answered: name is unique, so a name the table holds gives an
\* error and ensureBrandId returns null; otherwise the row is added,
\* fetchBrands is called and ensureBrandId returns the new id
BrandInserted(s) ==
    /\ brandSave[s].phase = "branding"
    /\ LET name == trim(brandSave[s].name)
       IN  IF \E i \in 1..Len(brandTable) : brandTable[i].name = name
           THEN /\ brandSave' = [brandSave EXCEPT ![s].phase = "writing",
                                                  ![s].brandId = NoId,
                                                  ![s].error = TRUE]
                /\ UNCHANGED <<brandTable, brandNextId, brandFetch>>
           ELSE /\ brandTable' = Append(brandTable, [id |-> brandNextId, name |-> name])
                /\ brandNextId' = brandNextId + 1
                /\ brandFetch' = [brandFetch EXCEPT ![s].sent = @ + 1]
                /\ brandSave' = [brandSave EXCEPT ![s].phase = "writing",
                                                  ![s].brandId = brandNextId]
    /\ UNCHANGED <<brandProducts, brandsList, brandUi>>
    /\ UNCHANGED <<genVars, viewVars, dashVars, utilVars, earlyVars, shopVars, authVars, imageVars, checkVars>>

\* the insert of the brand is answered with another error (the request
\* fails, the table refuses it): no row is added and ensureBrandId returns null
BrandInsertFailed(s) ==
    /\ brandSave[s].phase = "branding"
    /\ brandSave' = [brandSave EXCEPT ![s].phase = "writing", ![s].brandId = NoId,
                                      ![s].error = TRUE]
    /\ UNCHANGED <<brandTable, brandNextId, brandProducts, brandsList, brandUi, brandFetch>>
    /\ UNCHANGED <<genVars, viewVars, dashVars, utilVars, earlyVars, shopVars, authVars, imageVars, checkVars>>

\* a save that gives up when its brand could not be inserted
BrandProductUnlessFailed(s) ==
    /\ brandSave[s].phase = "writing"
    /\ brandProducts' = IF brandSave[s].error THEN brandProducts
                        ELSE Append(brandProducts, [brand_id |-> brandSave[s].brandId])
    /\ brandUi' = [brandUi EXCEPT ![s].brand_name = <<>>, ![s].selected = NoId]
    /\ brandSave' = [brandSave EXCEPT ![s].phase = "fetching"]
    /\ UNCHANGED <<brandTable, brandNextId, brandsList, brandFetch>>
    /\ UNCHANGED <<genVars, viewVars, dashVars, utilVars, earlyVars, shopVars, authVars, imageVars, checkVars>>

\* from('products').insert([payload]) with brand_id: brandId||null is applied
\* and answered; the form and selectedBrandId are reset, fetchProducts is called
BrandProductWritten(s) ==
    /\ brandSave[s].phase = "writing"
    /\ brandProducts' = Append(brandProducts, [brand_id |-> brandSave[s].brandId])
    /\ brandUi' = [brandUi EXCEPT ![s].brand_name = <<>>, ![s].selected = NoId]
    /\ brandSave' = [brandSave EXCEPT ![s].phase = "fetching"]
    /\ UNCHANGED <<brandTable, brandNextId, brandsList, brandFetch>>
    /\ UNCHANGED <<genVars, viewVars, dashVars, utilVars, earlyVars, shopVars, authVars, imageVars, checkVars>>

\* fetchProducts of the save is answered: setLoading(false)
BrandSaveDone(s) ==
    /\ brandSave[s].phase = "fetching"
    /\ brandSave' = [brandSave EXCEPT ![s] = NoBrandSave]
    /\ UNCHANGED <<brandTable, brandNextId, brandProducts, brandsList, brandUi, brandFetch>>
    /\ UNCHANGED <<genVars, viewVars, dashVars, utilVars, earlyVars, shopVars, authVars, imageVars, checkVars>>

\* fetchBrands reads the table: select('*').order('name', { ascending: true }),
\* the rows here in the order of their insertion
FetchBrandsServed(s) ==
    /\ brandFetch[s].sent > 0
    /\ brandFetch' = [brandFetch EXCEPT ![s] =
                         [sent |-> @.sent - 1,
                          served |-> @.served (+) SetToBag({brandTable})]]
    /\ UNCHANGED <<brandTable, brandNextId, brandProducts, brandsList, brandUi, brandSave>>
    /\ UNCHANGED <<genVars, viewVars, dashVars, utilVars, earlyVars, shopVars, authVars, imageVars, checkVars>>

\* its answer: setBrands(data || [])
BrandsFetched(s, data) ==
    /\ BagIn(data, brandFetch[s].served)
    /\ brandsList' = [brandsList EXCEPT ![s] = data]
    /\ brandFetch' = [brandFetch EXCEPT ![s].served = @ (-) SetToBag({data})]
    /\ UNCHANGED <<brandTable, brandNextId, brandProducts, brandUi, brandSave>>
    /\ UNCHANGED <<genVars, viewVars, dashVars, utilVars, earlyVars, shopVars, authVars, imageVars, checkVars>>

BrandSessionNext(s) ==
    \/ \E n \in BrandNames : BrandInput(s, n)
    \/ \E i \in 1..Len(brandsList[s]) : pickBrandSuggestion(s, brandsList[s][i])
    \/ SaveWithBrand(s)
    \/ BrandInserted(s)
    \/ BrandInsertFailed(s)
    \/ BrandProductWritten(s)
    \/ BrandSaveDone(s)
    \/ FetchBrandsServed(s)
    \/ \E data \in BagToSet(brandFetch[s].served) : BrandsFetched(s, data)

BrandNext == BrandSessionNext("A")

----------------------------------------------------------------------------
(* The public Catalog over the products table while the admin writes to it.  *)
(* A row is [id, available].  The admin's writes are the writes of           *)
(* handleSaveOrUpdate and handleDelete as the table applies them.            *)

\* rows ever inserted
MaxShopId == 3

\* a select without the filter on available
SelectEvery(table) == Reverse(table)

\* select('*, brands(name)').eq('available', true).order('created_at', { ascending: false })
SelectAvailable(table) == Reverse(SelectSeq(table, LAMBDA r : r.available = TRUE))

NoCatalogFetch == [phase |-> "none", data |-> <<>>, seen |-> <<>>]

\* the Catalog is mounted: useState([]) and useEffect(() => { fetchProducts(); }, [])
ShopInit ==
    /\ shopTable = <<>>
    /\ shopNextId = 1
    /\ catProducts = <<>>
    /\ catFetch = [phase |-> "sent", data |-> <<>>, seen |-> <<>>]
    /\ catSeen = <<>>

\* the insert of a create with available: !!form.available
AdminInsert(a) ==
    /\ shopNextId <= MaxShopId
    /\ shopTable' = Append(shopTable, [id |-> shopNextId, available |-> a])
    /\ shopNextId' = shopNextId + 1
    /\ UNCHANGED <<catProducts, catFetch, catSeen>>
    /\ UNCHANGED <<genVars, viewVars, dashVars, utilVars, earlyVars, brandVars, authVars, imageVars, checkVars>>

\* the update of an edit that changes available
AdminUpdate(id, a) ==
    /\ \E i \in 1..Len(shopTable) : shopTable[i].id = id /\ shopTable[i].available # a
    /\ shopTable' = [i \in 1..Len(shopTable) |->
                        IF shopTable[i].id = id
                        THEN [id |-> id, available |-> a] ELSE shopTable[i]]
    /\ UNCHANGED <<shopNextId, catProducts, catFetch, catSeen>>
    /\ UNCHANGED <<genVars, viewVars, dashVars, utilVars, earlyVars, brandVars, authVars, imageVars, checkVars>>

\* the delete of handleDelete
AdminDelete(id) ==
    /\ \E i \in 1..Len(shopTable) : shopTable[i].id = id
    /\ shopTable' = SelectSeq(shopTable, LAMBDA r : r.id # id)
    /\ UNCHANGED <<shopNextId, catProducts, catFetch, catSeen>>
    /\ UNCHANGED <<genVars, viewVars, dashVars, utilVars, earlyVars, brandVars, authVars, imageVars, checkVars>>

\* the visitor opens the Catalog again: a new mount with its own state and
\* fetch; the answer of an earlier mount's fetch sets no state of this one
CatalogMount ==
    /\ catFetch.phase # "sent"
    /\ catProducts' = <<>>
    /\ catFetch' = [phase |-> "sent", data |-> <<>>, seen |-> <<>>]
    /\ catSeen' = <<>>
    /\ UNCHANGED <<shopTable, shopNextId>>
    /\ UNCHANGED <<genVars, viewVars, dashVars, utilVars, earlyVars, brandVars, authVars, imageVars, checkVars>>

\* Catalog.fetchProducts reads the table
CatalogFetchServed ==
    /\ catFetch.phase = "sent"
    /\ catFetch' = [phase |-> "served", data |-> SelectAvailable(shopTable),
                    seen |-> shopTable]
    /\ UNCHANGED <<shopTable, shopNextId, catProducts, catSeen>>
    /\ UNCHANGED <<genVars, viewVars, dashVars, utilVars, earlyVars, brandVars, authVars, imageVars, checkVars>>

\* its answer: setProducts(data || []); catSeen records the table it read
CatalogFetched ==
    /\ catFetch.phase = "served"
    /\ catProducts' = catFetch.data
    /\ catSeen' = catFetch.seen
    /\ catFetch' = NoCatalogFetch
    /\ UNCHANGED <<shopTable, shopNextId>>
    /\ UNCHANGED <<genVars, viewVars, dashVars, utilVars, earlyVars, brandVars, authVars, imageVars, checkVars>>

ShopNext ==
    \/ \E a \in BOOLEAN : AdminInsert(a)
    \/ \E id \in 1..MaxShopId, a \in BOOLEAN : AdminUpdate(id, a)
    \/ \E id \in 1..MaxShopId : AdminDelete(id)
    \/ CatalogMount
    \/ CatalogFetchServed
    \/ CatalogFetched

----------------------------------------------------------------------------
(* Authentication: AuthProvider, the routes and ProtectedRoute.  The brands  *)
(* variant renders "Loading session..." until its first getSession is        *)
(* answered; the consolidated variant renders the routes at once.            *)

\* notifications of onAuthStateChange not yet delivered
MaxEvents == 2

NoUser == "no user"
Users == {"u1", "u2"}
Paths == {"/login", "/dashboard", "/catalog", "/"}
NoPath == "no path"

\* the auto-logout check: its phase, what its getSession found, and whether
\* it has called signOut
NoCheck == [phase |-> "none", found |-> "none", signedOut |-> FALSE]

\* the variant with the loading gate and the variants without it
AuthVariants == {"brands", "consolidated"}

\* a ProtectedRoute that lets everyone in
ProtectedRouteOpen(u) == "children"

\* const ProtectedRoute = ({ children }) => ...: the children, or <Navigate to="/login" replace />
ProtectedRoute(u) == IF u = NoUser THEN "/login" ELSE "children"

\* <Routes>: the location and the page after the route of p has rendered,
\* every <Navigate> followed
Routed(p, u) ==
    CASE p = "/login" -> [path |-> p, screen |-> "Login"]
      [] p = "/dashboard" ->
            IF ProtectedRoute(u) = "children"
            THEN [path |-> p, screen |-> "Dashboard"]
            ELSE [path |-> ProtectedRoute(u), screen |-> "Login"]
      [] p = "/catalog" -> [path |-> p, screen |-> "Catalog"]
      [] OTHER -> [path |-> "/catalog", screen |-> "Catalog"]

\* AuthProvider: if (loading) return <div>Loading session...</div>, else the routes
Render(l, u, p) ==
    IF l THEN [path |-> p, screen |-> "Loading session..."] ELSE Routed(p, u)

\* the render that ends every step
Show(l, u, p) ==
    /\ path' = Render(l, u, p).path
    /\ screen' = Render(l, u, p).screen

\* the page is loaded at the location p: useState(null), useState(true) in the
\* brands variant, and the effect calls init()
Loaded(p) ==
    /\ user' = NoUser
    /\ authLoading' = (authVariant = "brands")
    /\ authInit' = [phase |-> "sent", user |-> NoUser]
    /\ events' = <<>>
    /\ navPending' = NoPath
    /\ visited' = p
    /\ Show(authLoading', NoUser, p)

AuthInit ==
    /\ authVariant \in AuthVariants
    /\ session \in Users \cup {NoUser}
    /\ user = NoUser
    /\ authLoading = (authVariant = "brands")
    /\ authInit = [phase |-> "sent", user |-> NoUser]
    /\ events = <<>>
    /\ navPending = NoPath
    /\ visited \in Paths
    /\ path = Render(authLoading, NoUser, visited).path
    /\ screen = Render(authLoading, NoUser, visited).screen
    /\ expired = FALSE
    /\ authMounted = TRUE
    /\ check = NoCheck

\* the address is typed or the page is reloaded
Reload(p) ==
    /\ Loaded(p)
    /\ authMounted' = TRUE
    /\ check' = NoCheck
    /\ UNCHANGED <<authVariant, session, expired>>
    /\ UNCHANGED <<genVars, viewVars, dashVars, utilVars, earlyVars, brandVars, shopVars, imageVars>>

\* supabase.auth.getSession() (getUser() in the consolidated variant) reads the session
AuthInitServed ==
    /\ authInit.phase = "sent"
    /\ authInit' = [phase |-> "served", user |-> session]
    /\ UNCHANGED <<authVariant, session, user, authLoading, events, navPending,
                   visited, path, screen>>
    /\ UNCHANGED <<genVars, viewVars, dashVars, utilVars, earlyVars, brandVars, shopVars, imageVars, checkVars>>

\* its answer: setUser(session?.user || null) and, finally, setLoading(false)
AuthInitAnswered ==
    /\ authMounted
    /\ authInit.phase = "served"
    /\ authInit' = [phase |-> "done", user |-> NoUser]
    /\ user' = authInit.user
    /\ authLoading' = FALSE
    /\ Show(FALSE, user', path)
    /\ UNCHANGED <<authVariant, session, events, navPending, visited>>
    /\ UNCHANGED <<genVars, viewVars, dashVars, utilVars, earlyVars, brandVars, shopVars, imageVars, checkVars>>

\* getSession fails: the error is caught, the user is left as it is and,
\* finally, setLoading(false)
AuthInitFailed ==
    /\ authMounted
    /\ authInit.phase = "sent"
    /\ authInit' = [phase |-> "done", user |-> NoUser]
    /\ authLoading' = FALSE
    /\ Show(FALSE, user, path)
    /\ UNCHANGED <<authVariant, session, user, events, navPending, visited>>
    /\ UNCHANGED <<genVars, viewVars, dashVars, utilVars, earlyVars, brandVars, shopVars, imageVars, checkVars>>

\* Login.handleLogin, the sign-in accepted: the session is u, the listeners
\* are notified and navigate('/dashboard') follows
handleLogin(u) ==
    /\ screen = "Login"
    /\ navPending = NoPath
    /\ Len(events) < MaxEvents
    /\ session' = u
    /\ events' = Append(events, u)
    /\ navPending' = "/dashboard"
    /\ UNCHANGED <<authVariant, user, authLoading, authInit, visited, path, screen>>
    /\ expired' = FALSE
    /\ UNCHANGED <<authMounted, check>>
    /\ UNCHANGED <<genVars, viewVars, dashVars, utilVars, earlyVars, brandVars, shopVars, imageVars>>

\* Header.handleLogout (the button is shown to a user): signOut, the
\* listeners are notified and navigate('/login') follows
handleLogout ==
    /\ ~authLoading
    /\ user # NoUser
    /\ navPending = NoPath
    /\ Len(events) < MaxEvents
    /\ session' = NoUser
    /\ events' = Append(events, NoUser)
    /\ navPending' = "/login"
    /\ UNCHANGED <<authVariant, user, authLoading, authInit, visited, path, screen>>
    /\ expired' = FALSE
    /\ UNCHANGED <<authMounted, check>>
    /\ UNCHANGED <<genVars, viewVars, dashVars, utilVars, earlyVars, brandVars, shopVars, imageVars>>

\* the navigate(...) of handleLogin or handleLogout
Navigated ==
    /\ navPending # NoPath
    /\ navPending' = NoPath
    /\ visited' = navPending
    /\ Show(authLoading, user, navPending)
    /\ UNCHANGED <<authVariant, session, user, authLoading, authInit, events>>
    /\ UNCHANGED <<genVars, viewVars, dashVars, utilVars, earlyVars, brandVars, shopVars, imageVars, checkVars>>

\* the session changes elsewhere (another tab signs in or out, the session
\* is refreshed or ends): the listener is notified while it is subscribed
SessionChanged(v) ==
    /\ v # session \/ expired
    /\ Len(events) < MaxEvents
    /\ session' = v
    /\ events' = IF authMounted THEN Append(events, v) ELSE events
    /\ UNCHANGED <<authVariant, user, authLoading, authInit, navPending, visited,
                   path, screen>>
    /\ expired' = FALSE
    /\ UNCHANGED <<authMounted, check>>
    /\ UNCHANGED <<genVars, viewVars, dashVars, utilVars, earlyVars, brandVars, shopVars, imageVars>>

\* the callback of onAuthStateChange: setUser(session?.user || null)
AuthStateChanged ==
    /\ authMounted
    /\ events # <<>>
    /\ user' = Head(events)
    /\ events' = Tail(events)
    /\ Show(authLoading, user', path)
    /\ UNCHANGED <<authVariant, session, authLoading, authInit, navPending, visited>>
    /\ UNCHANGED <<genVars, viewVars, dashVars, utilVars, earlyVars, brandVars, shopVars, imageVars, checkVars>>

\* a link or the history leads to p while the routes are rendered
Visit(p) ==
    /\ ~authLoading
    /\ visited' = p
    /\ Show(authLoading, user, p)
    /\ <<visited', path'>> # <<visited, path>>
    /\ UNCHANGED <<authVariant, session, user, authLoading, authInit, events, navPending>>
    /\ UNCHANGED <<genVars, viewVars, dashVars, utilVars, earlyVars, brandVars, shopVars, imageVars, checkVars>>

AuthNext ==
    \/ \E p \in Paths : Reload(p)
    \/ AuthInitServed
    \/ AuthInitAnswered
    \/ AuthInitFailed
    \/ \E u \in Users : handleLogin(u)
    \/ handleLogout
    \/ Navigated
    \/ \E v \in Users \cup {NoUser} : SessionChanged(v)
    \/ AuthStateChanged
    \/ \E p \in Paths : Visit(p)

----------------------------------------------------------------------------
(* Auto-logout: the interval of AuthProvider (brands variant) reads the      *)
(* session every 60 seconds and signs out when its expires_at has passed.    *)
(* One check is followed at a time.                                          *)

authRest == <<authVariant, user, authLoading, authInit, navPending, visited, path, screen>>

\* AuthProvider is mounted with its getSession sent; the stored session, if
\* any, may have expired already
AutoLogoutInit ==
    /\ authVariant = "brands"
    /\ session \in Users \cup {NoUser}
    /\ expired \in BOOLEAN
    /\ session = NoUser => ~expired
    /\ user = NoUser
    /\ authLoading = TRUE
    /\ authInit = [phase |-> "sent", user |-> NoUser]
    /\ events = <<>>
    /\ navPending = NoPath
    /\ visited \in {"/dashboard", "/catalog"}
    /\ path = visited
    /\ screen = "Loading session..."
    /\ authMounted = TRUE
    /\ check = NoCheck

\* time passes the session's expires_at
SessionExpires ==
    /\ session # NoUser
    /\ ~expired
    /\ expired' = TRUE
    /\ UNCHANGED <<authMounted, check, authVars>>
    /\ UNCHANGED <<genVars, viewVars, dashVars, utilVars, earlyVars, brandVars, shopVars,
                   imageVars>>

\* the interval fires: the callback calls supabase.auth.getSession()
Tick ==
    /\ authMounted
    /\ check.phase = "none"
    /\ check' = [phase |-> "reading", found |-> "none", signedOut |-> FALSE]
    /\ UNCHANGED <<expired, authMounted, authVars>>
    /\ UNCHANGED <<genVars, viewVars, dashVars, utilVars, earlyVars, brandVars, shopVars,
                   imageVars>>

\* getSession is answered: exp = data?.session?.expires_at, and
\* exp && Date.now() / 1000 > exp
CheckServed ==
    /\ check.phase = "reading"
    /\ check' = [phase |-> "read",
                 found |-> IF session = NoUser THEN "none"
                           ELSE IF expired THEN "expired" ELSE "valid",
                 signedOut |-> FALSE]
    /\ UNCHANGED <<expired, authMounted, authVars>>
    /\ UNCHANGED <<genVars, viewVars, dashVars, utilVars, earlyVars, brandVars, shopVars,
                   imageVars>>

\* getSession throws: catch (e) { /* ignore */ }
CheckFailed ==
    /\ check.phase = "reading"
    /\ check' = NoCheck
    /\ UNCHANGED <<expired, authMounted, authVars>>
    /\ UNCHANGED <<genVars, viewVars, dashVars, utilVars, earlyVars, brandVars, shopVars,
                   imageVars>>

\* no session, or one that has not expired: the callback ends
CheckPassed ==
    /\ check.phase = "read"
    /\ check.found # "expired"
    /\ check' = NoCheck
    /\ UNCHANGED <<expired, authMounted, authVars>>
    /\ UNCHANGED <<genVars, viewVars, dashVars, utilVars, earlyVars, brandVars, shopVars,
                   imageVars>>

\* a callback that ends without signing out
CheckIgnoresExpiry ==
    /\ check.phase = "read"
    /\ check.found = "expired"
    /\ check' = NoCheck
    /\ UNCHANGED <<expired, authMounted, authVars>>
    /\ UNCHANGED <<genVars, viewVars, dashVars, utilVars, earlyVars, brandVars, shopVars,
                   imageVars>>

\* an expired session: await supabase.auth.signOut(); the session is removed
\* and the subscribed listener is notified
CheckSignsOut ==
    /\ check.phase = "read"
    /\ check.found = "expired"
    /\ session' = NoUser
    /\ expired' = FALSE
    /\ events' = IF authMounted THEN Append(events, NoUser) ELSE events
    /\ check' = [phase |-> "none", found |-> "expired", signedOut |-> TRUE]
    /\ UNCHANGED <<authMounted, authRest>>
    /\ UNCHANGED <<genVars, viewVars, dashVars, utilVars, earlyVars, brandVars, shopVars,
                   imageVars>>

\* the cleanup of the effect: mounted = false, the listener is unsubscribed,
\* clearInterval(interval).  A callback that is waiting goes on.
Unmount ==
    /\ authMounted
    /\ authMounted' = FALSE
    /\ events' = <<>>
    /\ UNCHANGED <<expired, check, session, authRest>>
    /\ UNCHANGED <<genVars, viewVars, dashVars, utilVars, earlyVars, brandVars, shopVars,
                   imageVars>>

\* the answer of the first getSession after the cleanup: if (!mounted) return
AuthInitDropped ==
    /\ ~authMounted
    /\ authInit.phase # "done"
    /\ authInit' = [phase |-> "done", user |-> NoUser]
    /\ UNCHANGED <<authVariant, session, user, authLoading, events, navPending, visited,
                   path, screen>>
    /\ UNCHANGED <<expired, authMounted, check>>
    /\ UNCHANGED <<genVars, viewVars, dashVars, utilVars, earlyVars, brandVars, shopVars,
                   imageVars>>

AutoLogoutNext ==
    \/ AuthInitServed
    \/ AuthInitAnswered
    \/ AuthInitFailed
    \/ AuthInitDropped
    \/ \E v \in Users \cup {NoUser} : SessionChanged(v)
    \/ SessionExpires
    \/ AuthStateChanged
    \/ Tick
    \/ CheckServed
    \/ CheckFailed
    \/ CheckPassed
    \/ CheckSignsOut
    \/ Unmount

----------------------------------------------------------------------------
(* Images: the file input of the Dashboard, uploadFileIfAny and the          *)
(* image_url a save writes.  A row is [id, image_url]; image_url is null or  *)
(* the public URL of an uploaded file, here the one-element sequence of the  *)
(* file's name.                                                              *)

\* rows ever inserted
MaxImgId == 2

\* the files the user chooses
Files == {"f1", "f2"}
NoFile == "no file"

\* supabase.storage.from('product-images').getPublicUrl(fileName).publicUrl
PublicUrl(f) == <<f>>

\* useState of form.id and form.image_url
EmptyImgForm == [id |-> NoId, image_url |-> <<>>]

NoImgSave ==
    [phase |-> "idle", form |-> EmptyImgForm, file |-> NoFile, imageUrl |-> Null,
     failed |-> FALSE, data |-> <<>>]

\* the Dashboard is mounted on an empty table and its fetchProducts is sent
ImgInit ==
    /\ imgTable = <<>>
    /\ imgNextId = 1
    /\ imgProducts = <<>>
    /\ imgForm = EmptyImgForm
    /\ imgFile = NoFile
    /\ imgSave = NoImgSave
    /\ imgFetch = [phase |-> "sent", data |-> <<>>]

\* onChange of the file input: setFile(e.target.files?.[0]||null)
ChooseFile(f) ==
    /\ imgFile # f
    /\ imgFile' = f
    /\ UNCHANGED <<imgTable, imgNextId, imgProducts, imgForm, imgSave, imgFetch>>
    /\ UNCHANGED <<genVars, viewVars, dashVars, utilVars, earlyVars, brandVars, shopVars,
                   authVars, checkVars>>

\* handleEdit(p): image_url: p.image_url || ''; the chosen file is kept
ImgEdit(p) ==
    /\ imgForm' = [id |-> p.id, image_url |-> OrElse(p.image_url, <<>>)]
    /\ imgForm' # imgForm
    /\ UNCHANGED <<imgTable, imgNextId, imgProducts, imgFile, imgSave, imgFetch>>
    /\ UNCHANGED <<genVars, viewVars, dashVars, utilVars, earlyVars, brandVars, shopVars,
                   authVars, checkVars>>

\* onClick of Reset: the form is emptied and setFile(null)
ImgReset ==
    /\ imgForm # EmptyImgForm \/ imgFile # NoFile
    /\ imgForm' = EmptyImgForm
    /\ imgFile' = NoFile
    /\ UNCHANGED <<imgTable, imgNextId, imgProducts, imgSave, imgFetch>>
    /\ UNCHANGED <<genVars, viewVars, dashVars, utilVars, earlyVars, brandVars, shopVars,
                   authVars, checkVars>>

\* handleSaveOrUpdate up to the first request it sends (no brand).  The
\* submit button is disabled while loading.  uploadFileIfAny: without a file
\* it returns form.image_url || null and the write is sent; with a file the
\* upload is sent.
ImgSave ==
    /\ imgSave.phase = "idle"
    /\ imgFetch.phase = "done"
    /\ imgForm.id = NoId => imgNextId <= MaxImgId
    /\ imgSave' =
           IF imgFile = NoFile
           THEN [phase |-> "writing", form |-> imgForm, file |-> imgFile,
                 imageUrl |-> OrElse(imgForm.image_url, Null), failed |-> FALSE,
                 data |-> <<>>]
           ELSE [phase |-> "uploading", form |-> imgForm, file |-> imgFile,
                 imageUrl |-> Null, failed |-> FALSE, data |-> <<>>]
    /\ UNCHANGED <<imgTable, imgNextId, imgProducts, imgForm, imgFile, imgFetch>>
    /\ UNCHANGED <<genVars, viewVars, dashVars, utilVars, earlyVars, brandVars, shopVars,
                   authVars, checkVars>>

\* the upload is answered without error: return publicUrl.publicUrl
Uploaded ==
    /\ imgSave.phase = "uploading"
    /\ imgSave' = [imgSave EXCEPT !.phase = "writing",
                                  !.imageUrl = PublicUrl(imgSave.file)]
    /\ UNCHANGED <<imgTable, imgNextId, imgProducts, imgForm, imgFile, imgFetch>>
    /\ UNCHANGED <<genVars, viewVars, dashVars, utilVars, earlyVars, brandVars, shopVars,
                   authVars, checkVars>>

\* the upload is answered with an error: return form.image_url || null
UploadFailed ==
    /\ imgSave.phase = "uploading"
    /\ imgSave' = [imgSave EXCEPT !.phase = "writing",
                                  !.imageUrl = OrElse(imgSave.form.image_url, Null),
                                  !.failed = TRUE]
    /\ UNCHANGED <<imgTable, imgNextId, imgProducts, imgForm, imgFile, imgFetch>>
    /\ UNCHANGED <<genVars, viewVars, dashVars, utilVars, earlyVars, brandVars, shopVars,
                   authVars, checkVars>>

\* the write with image_url: imageUrl||null is applied and answered: update
\* of the row of form.id or insert; the form is reset, setFile(null), and
\* fetchProducts is called
ImgWritten ==
    /\ imgSave.phase = "writing"
    /\ IF imgSave.form.id # NoId
       THEN /\ imgTable' = [i \in 1..Len(imgTable) |->
                               IF imgTable[i].id = imgSave.form.id
                               THEN [id |-> imgTable[i].id,
                                     image_url |-> OrElse(imgSave.imageUrl, Null)]
                               ELSE imgTable[i]]
            /\ UNCHANGED imgNextId
       ELSE /\ imgTable' = Append(imgTable,
                                  [id |-> imgNextId,
                                   image_url |-> OrElse(imgSave.imageUrl, Null)])
            /\ imgNextId' = imgNextId + 1
    /\ imgForm' = EmptyImgForm
    /\ imgFile' = NoFile
    /\ imgSave' = [imgSave EXCEPT !.phase = "fetching"]
    /\ UNCHANGED <<imgProducts, imgFetch>>
    /\ UNCHANGED <<genVars, viewVars, dashVars, utilVars, earlyVars, brandVars, shopVars,
                   authVars, checkVars>>

\* the fetch of the save reads the table
ImgSaveFetchServed ==
    /\ imgSave.phase = "fetching"
    /\ imgSave' = [imgSave EXCEPT !.phase = "fetched", !.data = Reverse(imgTable)]
    /\ UNCHANGED <<imgTable, imgNextId, imgProducts, imgForm, imgFile, imgFetch>>
    /\ UNCHANGED <<genVars, viewVars, dashVars, utilVars, earlyVars, brandVars, shopVars,
                   authVars, checkVars>>

\* its answer: setProducts(data), setLoading(false)
ImgSaveFetched ==
    /\ imgSave.phase = "fetched"
    /\ imgProducts' = imgSave.data
    /\ imgSave' = NoImgSave
    /\ UNCHANGED <<imgTable, imgNextId, imgForm, imgFile, imgFetch>>
    /\ UNCHANGED <<genVars, viewVars, dashVars, utilVars, earlyVars, brandVars, shopVars,
                   authVars, checkVars>>

\* the fetch of the mount reads the table
ImgFetchServed ==
    /\ imgFetch.phase = "sent"
    /\ imgFetch' = [phase |-> "served", data |-> Reverse(imgTable)]
    /\ UNCHANGED <<imgTable, imgNextId, imgProducts, imgForm, imgFile, imgSave>>
    /\ UNCHANGED <<genVars, viewVars, dashVars, utilVars, earlyVars, brandVars, shopVars,
                   authVars, checkVars>>

\* its answer: setProducts(data), setLoading(false)
ImgFetched ==
    /\ imgFetch.phase = "served"
    /\ imgProducts' = imgFetch.data
    /\ imgFetch' = [phase |-> "done", data |-> <<>>]
    /\ UNCHANGED <<imgTable, imgNextId, imgForm, imgFile, imgSave>>
    /\ UNCHANGED <<genVars, viewVars, dashVars, utilVars, earlyVars, brandVars, shopVars,
                   authVars, checkVars>>

ImgNext ==
    \/ \E f \in Files : ChooseFile(f)
    \/ \E i \in 1..Len(imgProducts) : ImgEdit(imgProducts[i])
    \/ ImgReset
    \/ ImgSave
    \/ Uploaded
    \/ UploadFailed
    \/ ImgWritten
    \/ ImgSaveFetchServed
    \/ ImgSaveFetched
    \/ ImgFetchServed
    \/ ImgFetched

----------------------------------------------------------------------------
(* Utilities: normalizeAffiliate and formatPrice *)

\* s.startsWith(prefix)
startsWith(s, prefix) ==
    Len(s) >= Len(prefix) /\ SubSeq(s, 1, Len(prefix)) = prefix

http == <<"h","t","t","p">>
HttpsPrefix == <<"h","t","t","p","s",":","/","/">>

\* a normalizeAffiliate that puts https:// before every link
normalizeAffiliateAlways(url) ==
    IF url = Null \/ url = <<>> THEN Null ELSE HttpsPrefix \o url

\* function normalizeAffiliate(url) of the brands variant
normalizeAffiliate(url) ==
    IF url = Null \/ url = <<>> THEN Null
    ELSE IF startsWith(url, http) THEN url ELSE HttpsPrefix \o url

\* the values Number(p) can have
Finite(n) == [kind |-> "finite", n |-> n]
NotANumber == [kind |-> "NaN", n |-> 0]
Infinity == [kind |-> "Infinity", n |-> 0]
NegInfinity == [kind |-> "-Infinity", n |-> 0]

\* the JavaScript values a price can be: a number, a string, undefined, null
NumberPrice(v) == [type |-> "number", num |-> v, str |-> <<>>]
StringPrice(s) == [type |-> "string", num |-> NotANumber, str |-> s]
Undefined == [type |-> "undefined", num |-> NotANumber, str |-> <<>>]
NullPrice == [type |-> "null", num |-> NotANumber, str |-> <<>>]

RECURSIVE DigitsToNumber(_)
DigitsToNumber(t) ==
    IF t = <<>> THEN 0
    ELSE 10 * DigitsToNumber(SubSeq(t, 1, Len(t) - 1))
         + (CHOOSE d \in 0..9 : Digits[d + 1] = t[Len(t)])

\* Number(p): a number is itself, undefined is NaN, null is 0; a string is
\* trimmed, the empty string is 0, a string of decimal digits is its value and
\* a string with another character is NaN
Number(p) ==
    CASE p.type = "number" -> p.num
      [] p.type = "undefined" -> NotANumber
      [] p.type = "null" -> Finite(0)
      [] p.type = "string" ->
            LET t == trim(p.str)
            IN  IF t = <<>> THEN Finite(0)
                ELSE IF \A i \in 1..Len(t) : t[i] \in Range(Digits)
                     THEN Finite(DigitsToNumber(t))
                     ELSE NotANumber

\* Number.isFinite(n)
isFinite(v) == v.kind = "finite"

\* the digits d in groups of three from the right, sep between the groups
RECURSIVE GroupDigits(_, _)
GroupDigits(d, sep) ==
    IF Len(d) <= 3 THEN d
    ELSE GroupDigits(SubSeq(d, 1, Len(d) - 3), sep)
             \o <<sep>> \o SubSeq(d, Len(d) - 2, Len(d))

\* an integer written without grouping
toLocaleStringPlain(n, sep) ==
    IF n < 0 THEN <<"-">> \o String(-n) ELSE String(n)

\* n.toLocaleString(locale) for an integer n in a locale that groups by
\* thousands with the separator sep
toLocaleString(n, sep) ==
    IF n < 0 THEN <<"-">> \o GroupDigits(String(-n), sep)
    ELSE GroupDigits(String(n), sep)

\* the placeholder: the one-character string of an em dash
Placeholder == <<"EM DASH">>

\* the group separator of id-ID
IdSep == "."

\* function formatPrice(p): the brands variant formats with 'id-ID', the
\* consolidated variant with the default locale of the runtime
formatPrice(p, variant, runtimeSep) ==
    LET n == Number(p)
    IN  IF ~isFinite(n) THEN Placeholder
        ELSE toLocaleString(n.n, IF variant = "brands" THEN IdSep ELSE runtimeSep)

----------------------------------------------------------------------------
(* The utilities over arbitrary inputs *)

ShopUrl ==
    <<"s","h","o","p",".","e","x","a","m","p","l","e",".","c","o","m","/","x">>
HttpAB == <<"h","t","t","p",":","/","/","a",".","b">>
FtpAB == <<"f","t","p",":","/","/","a",".","b">>
HttpbinOrg == <<"h","t","t","p","b","i","n",".","o","r","g">>

\* affiliate links: none, empty, a bare host and path, links with the schemes
\* http, https, HTTP and ftp, a bare host whose name begins with http
AffUrls ==
    { Null, <<>>, ShopUrl, HttpAB,
      <<"h","t","t","p","s",":","/","/","a",".","b">>,
      <<"H","T","T","P",":","/","/","a",".","b">>,
      FtpAB, HttpbinOrg, <<"a",".","b">> }

\* prices: numbers of one to seven digits, a negative number, the non-finite
\* numbers, undefined, null, and strings (empty, blank, digits, other text)
Prices ==
    { NumberPrice(Finite(n)) : n \in {0, 7, 999, 1000, 25000, 1234567, -1000} }
    \cup { NumberPrice(NotANumber), NumberPrice(Infinity), NumberPrice(NegInfinity),
           Undefined, NullPrice }
    \cup { StringPrice(s) : s \in { <<>>, <<" ">>, <<"1","0","0","0">>,
                                    <<"a","b","c">>, <<"1","2","a">> } }

OneThousandPrice == NumberPrice(Finite(1000))

Variants == {"brands", "consolidated"}

\* group separators of the default locale of the runtime (en-US; id-ID, de-DE)
GroupSeparators == {",", "."}

NotCalled == [done |-> FALSE, value |-> <<>>]
Returned(v) == [done |-> TRUE, value |-> v]

UtilInit ==
    /\ affUrl \in AffUrls
    /\ affOut = NotCalled
    /\ affAgain = NotCalled
    /\ price \in Prices
    /\ priceVariant \in Variants
    /\ localeSep \in GroupSeparators
    /\ priceOut = NotCalled

\* href={normalizeAffiliate(p.affiliate_url)}
NormalizeAffiliate ==
    /\ ~affOut.done
    /\ affOut' = Returned(normalizeAffiliate(affUrl))
    /\ UNCHANGED <<affUrl, affAgain, price, priceVariant, localeSep, priceOut>>
    /\ UNCHANGED <<genVars, viewVars, dashVars, earlyVars, brandVars, shopVars, authVars, imageVars, checkVars>>

\* normalizeAffiliate applied to a link it has returned (a normalized link
\* that was stored and is rendered again)
NormalizeAgain ==
    /\ affOut.done
    /\ ~affAgain.done
    /\ affAgain' = Returned(normalizeAffiliate(affOut.value))
    /\ UNCHANGED <<affUrl, affOut, price, priceVariant, localeSep, priceOut>>
    /\ UNCHANGED <<genVars, viewVars, dashVars, earlyVars, brandVars, shopVars, authVars, imageVars, checkVars>>

\* Rp{formatPrice(p.price)}
FormatPrice ==
    /\ ~priceOut.done
    /\ priceOut' = Returned(formatPrice(price, priceVariant, localeSep))
    /\ UNCHANGED <<affUrl, affOut, affAgain, price, priceVariant, localeSep>>
    /\ UNCHANGED <<genVars, viewVars, dashVars, earlyVars, brandVars, shopVars, authVars, imageVars, checkVars>>

UtilNext == NormalizeAffiliate \/ NormalizeAgain \/ FormatPrice

----------------------------------------------------------------------------
(* The earliest variant (src/unnamed/part_000): generateCode, handleSave and  *)
(* the Catalog.  A call that throws returns TypeError here.                  *)

TypeError == <<"TypeError">>

\* function generateCode(category, index): category.substring throws when
\* category is null or undefined
generateCode(category, index) ==
    IF category = Null THEN TypeError
    ELSE LET prefix == toUpperCase(substring(category, 0, PrefixLen))
             number == padStart(String(index + 1), PadWidth, "0")
         IN  prefix \o number

\* rows of the table written by handleSave
MaxEarlyRows == 3

\* categories and indexes given to generateCode alone
EarlyCategories == {Shirts, Pants, <<"a","b">>, <<>>, Null}
EarlyIndexes == {0, 1, 99}

EarlyIdleSave == [phase |-> "idle", category |-> Shirts, code |-> <<>>]

EarlyGenInit ==
    /\ earlyCat = Null
    /\ earlyIndex = 0
    /\ earlyCode = NotCalled
    /\ earlyTable = <<>>
    /\ earlySave = EarlyIdleSave

\* generateCode called with any category and index
EarlyGenerate(cat, index) ==
    /\ earlyCat' = cat
    /\ earlyIndex' = index
    /\ earlyCode' = Returned(generateCode(cat, index))
    /\ UNCHANGED <<earlyTable, earlySave>>
    /\ UNCHANGED <<earlyProducts, earlySearch, earlyFiltered, earlyPrices>>
    /\ UNCHANGED <<genVars, viewVars, dashVars, utilVars, brandVars, shopVars, authVars, imageVars, checkVars>>

\* handleSave with the category c selected in the form, no file chosen, up to
\* the count it asks of the table
handleSave(c) ==
    /\ earlySave.phase = "idle"
    /\ Len(earlyTable) < MaxEarlyRows
    /\ earlySave' = [phase |-> "counting", category |-> c, code |-> <<>>]
    /\ UNCHANGED <<earlyCat, earlyIndex, earlyCode, earlyTable>>
    /\ UNCHANGED <<earlyProducts, earlySearch, earlyFiltered, earlyPrices>>
    /\ UNCHANGED <<genVars, viewVars, dashVars, utilVars, brandVars, shopVars, authVars, imageVars, checkVars>>

\* select('*', { count: 'exact', head: true }) is answered with the number of
\* all rows; const code = generateCode(form.category, count || 0); the insert
\* is sent
EarlyCounted ==
    /\ earlySave.phase = "counting"
    /\ earlySave' = [earlySave EXCEPT
                        !.phase = "inserting",
                        !.code = generateCode(earlySave.category, Len(earlyTable))]
    /\ UNCHANGED <<earlyCat, earlyIndex, earlyCode, earlyTable>>
    /\ UNCHANGED <<earlyProducts, earlySearch, earlyFiltered, earlyPrices>>
    /\ UNCHANGED <<genVars, viewVars, dashVars, utilVars, brandVars, shopVars, authVars, imageVars, checkVars>>

\* insert([newProduct]) is applied and answered without error; the form is reset
EarlyInserted ==
    /\ earlySave.phase = "inserting"
    /\ earlyTable' = Append(earlyTable,
                            [code |-> earlySave.code, category |-> earlySave.category])
    /\ earlySave' = EarlyIdleSave
    /\ UNCHANGED <<earlyCat, earlyIndex, earlyCode>>
    /\ UNCHANGED <<earlyProducts, earlySearch, earlyFiltered, earlyPrices>>
    /\ UNCHANGED <<genVars, viewVars, dashVars, utilVars, brandVars, shopVars, authVars, imageVars, checkVars>>

EarlyGenNext ==
    \/ \E cat \in EarlyCategories, index \in EarlyIndexes : EarlyGenerate(cat, index)
    \/ \E c \in FormCategories : handleSave(c)
    \/ EarlyCounted
    \/ EarlyInserted

\* the callback of products.filter in the Catalog throws: p.name.toLowerCase()
\* and the next two throw on a missing field, || stops at the first field that
\* holds the query
EarlyThrows(p, s) ==
    LET q == toLowerCase(s)
    IN  IF p.name = Null THEN TRUE
        ELSE IF includes(toLowerCase(p.name), q) THEN FALSE
        ELSE IF p.brand = Null THEN TRUE
        ELSE IF includes(toLowerCase(p.brand), q) THEN FALSE
        ELSE p.code = Null

\* what the callback returns when it does not throw
EarlyMatches(p, s) ==
    LET q == toLowerCase(s)
    IN  IF includes(toLowerCase(p.name), q) THEN TRUE
        ELSE IF includes(toLowerCase(p.brand), q) THEN TRUE
        ELSE includes(toLowerCase(p.code), q)

\* what a render computes: a list, or nothing because an error was thrown
Threw == [threw |-> TRUE, list |-> <<>>]
Gave(list) == [threw |-> FALSE, list |-> list]

\* const filtered = products.filter(...)
EarlyFiltered(prods, s) ==
    IF \E i \in 1..Len(prods) : EarlyThrows(prods[i], s)
    THEN Threw
    ELSE Gave(SelectSeq(prods, LAMBDA p : EarlyMatches(p, s)))

\* p.price.toLocaleString(): a number in the default locale, a string itself,
\* and a TypeError when the price is null or undefined
EarlyPriceText(p, sep) ==
    CASE p.type = "number" ->
             IF isFinite(p.num) THEN toLocaleString(p.num.n, sep)
             ELSE <<"N","a","N">>
      [] p.type = "string" -> p.str
      [] OTHER -> TypeError

\* the prices of the cards of filtered.map(...)
EarlyPrices(f, sep) ==
    IF f.threw THEN Threw
    ELSE IF \E i \in 1..Len(f.list) : EarlyPriceText(f.list[i].price, sep) = TypeError
    THEN Threw
    ELSE Gave([i \in 1..Len(f.list) |-> EarlyPriceText(f.list[i].price, sep)])

MaxEarlyLen == 2

\* rows of the Catalog: every field set, one field missing, a price that is
\* no number
EarlyRows ==
    { [name |-> RedTee, brand |-> Teva, code |-> SHI001, price |-> OneThousandPrice],
      [name |-> Null, brand |-> Teva, code |-> SHI001, price |-> OneThousandPrice],
      [name |-> RedTee, brand |-> Null, code |-> SHI001, price |-> OneThousandPrice],
      [name |-> RedTee, brand |-> Teva, code |-> Null, price |-> OneThousandPrice],
      [name |-> BlueTee, brand |-> Teva, code |-> SHI001, price |-> NullPrice],
      [name |-> BlueTee, brand |-> Teva, code |-> SHI001,
       price |-> StringPrice(<<"a","b","c">>)] }

EarlyLists == UNION {[1..n -> EarlyRows] : n \in 0..MaxEarlyLen}

EarlyQueries == { <<>>, <<"t","e","e">>, <<"T","E","V">>, <<"s","h","i">> }

\* the Catalog after its fetch: products, the empty search, the first render
EarlyCatalogInit ==
    /\ earlyProducts \in EarlyLists
    /\ localeSep \in GroupSeparators
    /\ earlySearch = <<>>
    /\ earlyFiltered = EarlyFiltered(earlyProducts, <<>>)
    /\ earlyPrices = EarlyPrices(earlyFiltered, localeSep)

\* onChange of the Catalog's search input: setSearch, then the render
EarlySetSearch(q) ==
    /\ earlySearch' = q
    /\ earlyFiltered' = EarlyFiltered(earlyProducts, q)
    /\ earlyPrices' = EarlyPrices(earlyFiltered', localeSep)
    /\ UNCHANGED earlyProducts
    /\ UNCHANGED <<earlyCat, earlyIndex, earlyCode, earlyTable, earlySave>>
    /\ UNCHANGED <<genVars, viewVars, dashVars, utilVars, brandVars, shopVars, authVars, imageVars, checkVars>>

EarlyCatalogNext == \E q \in EarlyQueries : EarlySetSearch(q)

----------------------------------------------------------------------------
(* Properties of the code generator *)

\* the number a string of decimal digits denotes
RECURSIVE DecimalValue(_)
DecimalValue(s) ==
    IF s = <<>> THEN 0
    ELSE 10 * DecimalValue(SubSeq(s, 1, Len(s) - 1))
         + (CHOOSE d \in 0..9 : Digits[d + 1] = s[Len(s)])

\* the first three characters in upper case, all of them when there are fewer,
\* OTH when there is no category
ExpectedPrefix(c) ==
    IF c = Null \/ c = <<>> THEN OTH
    ELSE [i \in 1..(IF Len(c) < 3 THEN Len(c) ELSE 3) |-> UpperChar(c[i])]

ShirtsShirtsPants ==
    <<[category |-> Shirts], [category |-> Shirts], [category |-> Pants]>>

\* C1: the generated code is the prefix (the first three characters of the
\* category in upper case, the whole category when it is shorter, OTH when it
\* is empty or unset) followed by a suffix of decimal digits, zero-padded to
\* three digits, whose value is one more than the number of products that
\* have exactly this category; over [Shirts, Shirts, Pants] a Shirts product
\* gets SHI003 and a Pants product gets PAN002.
C1_CodeIsPrefixAndCount ==
    genCode # <<>> =>
        LET pre == ExpectedPrefix(genCat)
            suf == SubSeq(genCode, Len(pre) + 1, Len(genCode))
            n == Len(SelectSeq(genProducts, LAMBDA p : p.category = genCat))
        IN  /\ Len(genCode) >= Len(pre) + 3
            /\ SubSeq(genCode, 1, Len(pre)) = pre
            /\ \A i \in 1..Len(suf) : suf[i] \in Range(Digits)
            /\ Len(suf) > 3 => suf[1] # "0"
            /\ DecimalValue(suf) = n + 1
            /\ genProducts = ShirtsShirtsPants /\ genCat = Shirts
                   => genCode = <<"S","H","I","0","0","3">>
            /\ genProducts = ShirtsShirtsPants /\ genCat = Pants
                   => genCode = <<"P","A","N","0","0","2">>

\* C1 witness: the code PAN002 has been generated over [Shirts, Shirts, Pants]
C1_Witness ==
    /\ genProducts = ShirtsShirtsPants
    /\ genCat = Pants
    /\ genCode = <<"P","A","N","0","0","2">>

----------------------------------------------------------------------------
(* Properties of the codes in the products table *)

\* C2: in one session without other writers, with every request answered and
\* the product list equal to the table, the code generated for a new product
\* differs from the code of every product of the list.
C2_NewCodeDiffersFromListed ==
    \A s \in Sessions :
        ( /\ save[s].phase = "writing"
          /\ save[s].form.id = NoId
          /\ save[s].form.code = <<>>
          /\ deleting[s] = {}
          /\ fetching[s] = NoFetch
          /\ save[s].products = SelectProducts )
        => \A i \in 1..Len(save[s].products) :
               save[s].products[i].code # PayloadCode(save[s])

\* the save of s is a create with a generated code whose row has been inserted
Created(s) ==
    /\ save[s].phase \in {"fetching", "fetched"}
    /\ save[s].form.id = NoId
    /\ save[s].form.code = <<>>

\* two rows of the table have the same code
DuplicateCodes ==
    \E i, j \in 1..Len(store) : i < j /\ store[i].code = store[j].code

\* C3: when two sessions have each created a product of the same category
\* from the same product list, neither having seen the other's row, and no
\* row has been deleted, the table holds two rows with the same code.
C3_SameSnapshotCollides ==
    \A s1, s2 \in Sessions :
        ( /\ s1 # s2
          /\ Created(s1) /\ Created(s2)
          /\ save[s1].products = save[s2].products
          /\ save[s1].form.category = save[s2].form.category
          /\ Len(store) = nextId - 1 )
        => DuplicateCodes

\* C3 witness: both sessions have inserted a Pants product counted over the
\* same empty list, and the table holds the code PAN001 twice
C3_Witness ==
    /\ Created("A") /\ Created("B")
    /\ save["A"].products = <<>> /\ save["B"].products = <<>>
    /\ save["A"].form.category = Pants /\ save["B"].form.category = Pants
    /\ Len(store) = 2
    /\ store[1].code = <<"P","A","N","0","0","1">>
    /\ store[2].code = <<"P","A","N","0","0","1">>

----------------------------------------------------------------------------
(* Properties of the search filter and of the grouped view *)

IsBlank(q) == \A i \in 1..Len(q) : q[i] \in Whitespace

\* a missing field reads as the empty string
FieldText(f) == IF f = Null THEN <<>> ELSE f

\* q occurs in the field at some position, letters compared without their case
ContainsCI(f, q) ==
    \E k \in 0..(Len(FieldText(f)) - Len(q)) :
        \A j \in 1..Len(q) : UpperChar(FieldText(f)[k + j]) = UpperChar(q[j])

OccursIn(p, q) ==
    ContainsCI(p.name, q) \/ ContainsCI(p.brand, q) \/ ContainsCI(p.code, q)

\* q without the blanks before its first and after its last other character
Stripped(q) ==
    IF IsBlank(q) THEN <<>>
    ELSE LET first == CHOOSE i \in 1..Len(q) :
                 q[i] \notin Whitespace /\ \A j \in 1..(i - 1) : q[j] \in Whitespace
             last == CHOOSE i \in 1..Len(q) :
                 q[i] \notin Whitespace /\ \A j \in (i + 1)..Len(q) : q[j] \in Whitespace
         IN  SubSeq(q, first, last)

\* list is made of rows of viewProducts, in their order (a row's id is its position)
IsSubsequence(list) ==
    /\ \A i \in 1..Len(list) :
           list[i].id \in 1..Len(viewProducts) /\ viewProducts[list[i].id] = list[i]
    /\ \A i, j \in 1..Len(list) : i < j => list[i].id < list[j].id

\* C4: with an empty or all-blank query the filter of the Dashboard and of the
\* Catalog returns the product list itself: same products, same order.
C4_BlankQueryIsIdentity ==
    IsBlank(search) => filtered = viewProducts

\* C4 witness: the Catalog has filtered two products with a query of blanks
C4_Witness ==
    /\ page = "Catalog"
    /\ search = <<" ", " ">>
    /\ Len(viewProducts) = 2
    /\ Len(filtered) = 2

\* C5 as stated: every product of the result holds the query as typed, without
\* regard to case, in its name, its brand name or its code.
C5_ResultHoldsQueryAsTyped ==
    \A i \in 1..Len(filtered) : OccursIn(filtered[i], search)

\* C5, amended: every product of the result holds the query, stripped of the
\* blanks around it, without regard to case, in its name, its brand name or
\* its code.
C5_ResultHoldsStrippedQuery ==
    \A i \in 1..Len(filtered) : OccursIn(filtered[i], Stripped(search))

\* C5 witness: a query between blanks has selected one product of two
C5_Witness ==
    /\ search = <<" ","T","E","V"," ">>
    /\ Len(viewProducts) = 2
    /\ Len(filtered) = 1
    /\ filtered[1].brand = Teva

\* C6: with a non-empty query, every product that holds the query, without
\* regard to case, in its name or in its brand name or in its code is in the
\* result, whatever its other fields hold, and the result is a subsequence of
\* the product list.
C6_EveryMatchIsKept ==
    /\ search # <<>> =>
           \A i \in 1..Len(viewProducts) :
               OccursIn(viewProducts[i], search) =>
                   \E j \in 1..Len(filtered) : filtered[j] = viewProducts[i]
    /\ IsSubsequence(filtered)

\* C6 witness: a product found by its code alone, its name and brand missing,
\* is kept and the other product is not
C6_Witness ==
    /\ search = <<"s","h","i">>
    /\ Len(viewProducts) = 2
    /\ Len(filtered) = 1
    /\ filtered[1].id = 2
    /\ filtered[1].name = Null /\ filtered[1].brand = Null

\* the places (section, position) where the product p is presented
PlacesOf(p) ==
    {<<i, j>> \in (1..Len(sections)) \X (1..Len(filtered)) :
        j <= Len(sections[i].items) /\ sections[i].items[j] = p}

\* C7: no presented section is empty, and the sections together hold every
\* product of the filtered list exactly once and nothing else.
C7_SectionsPartitionFiltered ==
    /\ \A i \in 1..Len(sections) : sections[i].items # <<>>
    /\ \A k \in 1..Len(filtered) : Cardinality(PlacesOf(filtered[k])) = 1
    /\ \A i \in 1..Len(sections) : \A j \in 1..Len(sections[i].items) :
           \E k \in 1..Len(filtered) : filtered[k] = sections[i].items[j]

\* C7 witness: two filtered products are presented in two sections, the other
\* categories being left out
C7_Witness ==
    /\ search = <<"t","e","e">>
    /\ Len(filtered) = 2
    /\ Len(sections) = 2
    /\ Len(grouped.keys) > 2

FixedNames == {Shirts, TShirts, Jackets, Pants, Accessories, Shoes, Bags}

\* C8: a presented product is in the section named by its own category when
\* that category is one of the seven fixed names, and in the section Other
\* when it is not (unknown, empty or missing category).
C8_SectionOfProduct ==
    /\ \A i \in 1..Len(sections) : \A j \in 1..Len(sections[i].items) :
           LET p == sections[i].items[j]
           IN  sections[i].cat =
                   IF p.category \in FixedNames THEN p.category ELSE Other
    /\ \A k \in 1..Len(filtered) : PlacesOf(filtered[k]) # {}

\* C8 witness: the section Other holds a product of an unknown category and a
\* product without category
C8_Witness ==
    \E i \in 1..Len(sections) :
        /\ sections[i].cat = Other
        /\ Len(sections[i].items) = 2
        /\ sections[i].items[1].category = Hats
        /\ sections[i].items[2].category = Null

\* C9: within a section two products are in the order they have in the
\* product list.
C9_SectionKeepsInputOrder ==
    \A i \in 1..Len(sections) : \A j, k \in 1..Len(sections[i].items) :
        j < k =>
            \E m, n \in 1..Len(viewProducts) :
                /\ m < n
                /\ viewProducts[m] = sections[i].items[j]
                /\ viewProducts[n] = sections[i].items[k]

\* C9 witness: a section holds two products
C9_Witness ==
    \E i \in 1..Len(sections) :
        /\ Len(sections[i].items) = 2
        /\ sections[i].cat = TShirts

FixedOrder == <<Shirts, TShirts, Jackets, Pants, Accessories, Shoes, Bags, Other>>

RedTeeThenBlueTee ==
    << [id |-> 1, name |-> RedTee, brand |-> Null, code |-> Null, category |-> TShirts],
       [id |-> 2, name |-> BlueTee, brand |-> Teva, code |-> SHI001, category |-> Shirts] >>

\* C10: the presented sections are in the order Shirts, T-Shirts, Jackets,
\* Pants, Accessories, Shoes, Bags, Other, whatever the order of the products;
\* Red Tee (T-Shirts) and Blue Tee (Shirts) with the query tee give the two
\* sections Shirts and T-Shirts, in this order, and no other.
C10_SectionsInFixedOrder ==
    /\ \A i \in 1..Len(sections) : sections[i].cat \in Range(FixedOrder)
    /\ \A i, j \in 1..Len(sections) :
           i < j =>
               \E m, n \in 1..Len(FixedOrder) :
                   /\ m < n
                   /\ FixedOrder[m] = sections[i].cat
                   /\ FixedOrder[n] = sections[j].cat
    /\ viewProducts = RedTeeThenBlueTee /\ search = <<"t","e","e">> =>
           /\ Len(sections) = 2
           /\ sections[1].cat = Shirts /\ sections[1].items = <<RedTeeThenBlueTee[2]>>
           /\ sections[2].cat = TShirts /\ sections[2].items = <<RedTeeThenBlueTee[1]>>

\* C10 witness: Red Tee and Blue Tee have been searched with tee
C10_Witness ==
    /\ viewProducts = RedTeeThenBlueTee
    /\ search = <<"t","e","e">>
    /\ Len(sections) = 2

----------------------------------------------------------------------------
(* Properties of the utilities *)

SchemeChars == Range(LowerLetters) \cup Range(UpperLetters) \cup Range(Digits)
                   \cup {"+", "-", "."}

\* s starts with a URL scheme: a letter, then letters, digits, +, - or ., then :
HasScheme(s) ==
    \E i \in 2..Len(s) :
        /\ s[i] = ":"
        /\ s[1] \in Range(LowerLetters) \cup Range(UpperLetters)
        /\ \A j \in 2..(i - 1) : s[j] \in SchemeChars

\* C12: normalizeAffiliate returns null for a null or empty input, the input
\* itself when it starts with a URL scheme, whatever the scheme, and https://
\* followed by the input in every other case.
C12_NormalizeByScheme ==
    affOut.done =>
        affOut.value =
            IF affUrl = Null \/ affUrl = <<>> THEN Null
            ELSE IF HasScheme(affUrl) THEN affUrl
            ELSE <<"h","t","t","p","s",":","/","/">> \o affUrl

\* the number n written in decimal digits, with a minus sign when negative
Decimal(n) == IF n < 0 THEN <<"-">> \o String(-n) ELSE String(n)

\* out is the decimal string d with sep put before every group of three
\* digits counted from the right, and nowhere else
IsGrouped(out, d, sep) ==
    /\ SelectSeq(out, LAMBDA ch : ch # sep) = d
    /\ \A i \in 1..Len(out) :
           out[i] = sep <=>
               /\ (Len(out) - i + 1) % 4 = 0
               /\ i > 1
               /\ out[i - 1] \in Range(Digits)

\* the number the price coerces to is not finite
NotFinitePrice ==
    \/ price.type = "undefined"
    \/ price.type = "number" /\ price.num.kind # "finite"
    \/ price.type = "string"
           /\ \E i \in 1..Len(price.str) :
                  price.str[i] \notin Range(Digits) \cup Whitespace


----------------------------------------------------------------------------
(* Properties of the earliest variant *)

\* C14: code generation returns a code and raises no error whatever the
\* category, in every variant of the generator, and the code of an empty or
\* missing category begins with OTH.
C14_GeneratorNeverRaises ==
    earlyCode.done =>
        /\ earlyCode.value # TypeError
        /\ earlyCat = Null \/ earlyCat = <<>> => SubSeq(earlyCode.value, 1, 3) = OTH

\* C16: handleSave of the earliest variant gives a new product the first three
\* characters of its category in upper case followed by the number, padded to
\* three digits, of the products that had exactly this category before it,
\* plus one (no row is changed or deleted here, so these are the rows before).
C16_SuffixCountsCategory ==
    \A i \in 1..Len(earlyTable) :
        LET cat == earlyTable[i].category
            before == Cardinality({j \in 1..(i - 1) : earlyTable[j].category = cat})
        IN  earlyTable[i].code =
                toUpperCase(SubSeq(cat, 1, 3)) \o padStart(String(before + 1), 3, "0")

\* the price is missing or no number
NoNumericPrice(p) ==
    \/ p.type \in {"undefined", "null"}
    \/ p.type = "number" /\ p.num.kind # "finite"
    \/ p.type = "string" /\ Number(p).kind # "finite"

\* C15: searching, filtering and showing prices raise no error for any product
\* list, in every variant: a missing name, brand or code reads as the empty
\* string and a missing or non-numeric price is shown as the placeholder.
C15_ViewNeverRaises ==
    /\ ~earlyFiltered.threw
    /\ ~earlyPrices.threw
    /\ \A i \in 1..Len(earlyProducts) :
           OccursIn(earlyProducts[i], earlySearch) =>
               \E j \in 1..Len(earlyFiltered.list) :
                   earlyFiltered.list[j] = earlyProducts[i]
    /\ \A i \in 1..Len(earlyFiltered.list) :
           NoNumericPrice(earlyFiltered.list[i].price)
               => earlyPrices.list[i] = Placeholder

----------------------------------------------------------------------------
(* Properties of the writes of a save *)

\* the row the save of s has written: the row of form.id for an edit, the
\* newest row for a create (one session writes, no row is deleted)
WrittenRows(s) ==
    IF save[s].form.id # NoId
    THEN {i \in 1..Len(store) : store[i].id = save[s].form.id}
    ELSE {Len(store)}

\* C11: a save writes as the product's category the very value the form
\* holds, which for an edit is the stored value unless the user selects
\* another one, also when that value is outside the seven names or empty.
C11_SaveWritesFormCategory ==
    \A s \in Sessions :
        save[s].phase \in {"fetching", "fetched"} =>
            \A i \in WrittenRows(s) : store[i].category = save[s].form.category

\* the write of the save of s, from the table before to the table after
WriteOfSave(s) ==
    /\ save'[s].phase = "fetching"
    /\ IF save[s].form.id # NoId
       THEN /\ nextId' = nextId
            /\ Len(store') = Len(store)
            /\ \A i \in 1..Len(store) :
                   /\ store'[i].id = store[i].id
                   /\ store[i].id # save[s].form.id => store'[i] = store[i]
       ELSE /\ Len(store') = Len(store) + 1
            /\ \A i \in 1..Len(store) :
                   store'[i] = store[i] /\ store[i].id # store'[Len(store')].id

\* C19: a save sends one write, which ends its writing phase: with form.id set
\* it updates the row of that id, adds no row and leaves the other rows as
\* they are; with form.id null it adds one row with a new id and changes no
\* existing row.  Nothing else of a save changes the table.
C19_OneWriteKeyedByFormId ==
    [][ /\ \A s \in Sessions :
               save[s].phase = "writing" /\ save'[s].phase # "writing"
                   => WriteOfSave(s)
        /\ store' # store =>
               \E s \in Sessions :
                   save[s].phase = "writing" /\ save'[s].phase = "fetching"
      ]_vars

\* C19 witness: with two products in the table, the save of an edit of
\* product 1 has written, and the table still holds two products
C19_Witness ==
    /\ save["A"].phase = "fetching"
    /\ save["A"].form.id = 1
    /\ save["A"].form.category = Pants
    /\ Len(store) = 2
    /\ store[1].id = 1 /\ store[1].category = Pants
    /\ store[2].id = 2

\* C25: no step changes the code of a stored product, whatever an edit
\* changes in the form, the category included; a save whose form holds a code
\* is an edit and writes that code, so a code is generated only by a save
\* whose form holds no code.
C25_EditKeepsCode ==
    [][ /\ \A i \in 1..Len(store) :
               store[i].code # <<>> =>
                   i <= Len(store') /\ store'[i].code = store[i].code
        /\ \A s \in Sessions :
               ( /\ save[s].phase = "writing"
                 /\ save'[s].phase = "fetching"
                 /\ save[s].form.code # <<>> )
               => /\ save[s].form.id # NoId
                  /\ \A i \in 1..Len(store') :
                         store'[i].id = save[s].form.id =>
                             store'[i].code = save[s].form.code
      ]_vars

\* C25 witness: the stored Shirts product SHI001 has been edited into a Pants
\* product, and the table holds it with the code SHI001
C25_Witness ==
    /\ save["A"].phase = "fetching"
    /\ save["A"].form.id = 1
    /\ Len(store) = 1
    /\ store[1].category = Pants
    /\ store[1].code = <<"S","H","I","0","0","1">>

----------------------------------------------------------------------------
(* Properties of the brands *)

\* two names are equal without regard to case and to the blanks around them
SameBrandName(a, b) == toLowerCase(trim(a)) = toLowerCase(trim(b))

\* C17: a product saved with a non-empty brand name references a brand of the
\* table whose name is the entered name, without regard to case and to the
\* blanks around it, and the table never holds two brands whose names are
\* equal without regard to case.
C17_BrandGetOrCreate ==
    /\ \A s \in Sessions :
           brandSave[s].phase = "fetching" /\ brandSave[s].name # <<>> =>
               \E i \in 1..Len(brandTable) :
                   /\ brandTable[i].id = brandSave[s].brandId
                   /\ SameBrandName(brandTable[i].name, brandSave[s].name)
    /\ \A i, j \in 1..Len(brandTable) :
           i < j => toLowerCase(brandTable[i].name) # toLowerCase(brandTable[j].name)

----------------------------------------------------------------------------
(* Properties of the public Catalog *)

\* C18: whatever the admin has created, edited, switched and deleted, every
\* product of the Catalog's list was in the table with available = true when
\* the Catalog's latest fetch read it, and no product that the table held
\* with available = false at that time is in the list.
C18_CatalogListsAvailableOnly ==
    /\ \A i \in 1..Len(catProducts) :
           /\ catProducts[i].available = TRUE
           /\ \E j \in 1..Len(catSeen) : catSeen[j] = catProducts[i]
    /\ \A j \in 1..Len(catSeen) :
           catSeen[j].available = FALSE =>
               \A i \in 1..Len(catProducts) : catProducts[i].id # catSeen[j].id

\* C18 witness: the fetch read a table with an available and an unavailable
\* product, and the Catalog lists one product
C18_Witness ==
    /\ Len(catSeen) = 2
    /\ \E j \in 1..2 : catSeen[j].available = FALSE
    /\ Len(catProducts) = 1
    /\ catFetch.phase = "none"

----------------------------------------------------------------------------
(* Properties of the protected route *)

\* C20: the Dashboard is on the screen only while the auth context holds a
\* user; once the routes have rendered a visit to /dashboard with no user, the
\* location is /login and the Login page is shown; and while the routes are
\* rendered at /dashboard a user is present and the Dashboard is shown,
\* whoever the user is.
C20_DashboardOnlyWithUser ==
    /\ screen = "Dashboard" => user # NoUser
    /\ ~authLoading /\ visited = "/dashboard" /\ user = NoUser =>
           path = "/login" /\ screen = "Login"
    /\ ~authLoading /\ path = "/dashboard" =>
           user \in Users /\ screen = "Dashboard"

\* C20 witness: /dashboard has been visited with no user in the auth context,
\* although a session exists whose notification is still to come, and the
\* Login page is shown at /login
C20_Witness ==
    /\ ~authLoading
    /\ visited = "/dashboard"
    /\ user = NoUser
    /\ session = "u1"
    /\ events = <<"u1">>
    /\ path = "/login"
    /\ screen = "Login"

----------------------------------------------------------------------------
(* Algebraic properties of the utilities *)

\* C28: normalizeAffiliate is idempotent: applied to a link it has returned,
\* it returns that link again, for null, empty, bare and schemed inputs.
C28_NormalizeIdempotent ==
    affAgain.done => affAgain.value = affOut.value

\* C28 witness: a bare host and path got https:// once, and the second
\* application has returned the same link
C28_Witness ==
    /\ affUrl = ShopUrl
    /\ affAgain.done
    /\ affAgain.value = HttpsPrefix \o ShopUrl

----------------------------------------------------------------------------
(* Properties of the requests of one Dashboard *)

\* C24: from the step at which a save sets loading to true until that save
\* has finished, loading is true, so the submit button is disabled and no
\* second save can be started, whatever deletes and fetches run meanwhile.
C24_LoadingWhileSaving ==
    \A s \in Sessions : save[s].phase # "idle" => loading[s]

\* no request of session s to the table is outstanding
Quiet(s) ==
    /\ save[s].phase = "idle"
    /\ deleting[s] = {}
    /\ fetching[s] = NoFetch

\* C23: in a single session with no other writer, once every save, delete
\* and fetch has been answered, the Dashboard's products are the rows of the
\* table, in the order of the select.
C23_ProductsMatchStoreWhenQuiet ==
    Quiet("A") => products["A"] = SelectProducts

\* the rows of category c among the first i rows of the table
RowsOfCategory(c, i) == {j \in 1..i : store[j].category = c}

\* C22: in a single session that only creates, with no other writer, the
\* k-th product created in a category has the category's prefix followed by
\* k in three digits, so the codes of a category are 001, 002, 003, ... in
\* creation order and no two rows have the same code.
C22_SuffixesCountUp ==
    /\ \A i \in 1..Len(store) :
           store[i].code =
               toUpperCase(substring(store[i].category, 0, 3))
                   \o padStart(String(Cardinality(RowsOfCategory(store[i].category, i))),
                               3, "0")
    /\ ~DuplicateCodes

----------------------------------------------------------------------------
(* Properties of a save whose brand cannot be inserted *)

\* C27: when the insert of a new brand is answered with an error, no brand
\* row is added and ensureBrandId returns null; the save goes on and inserts
\* the product with brand_id null, and resets the brand name and the selected
\* brand of the form as a save without error does.
C27_BrandErrorKeepsSave ==
    [][ \A s \in Sessions :
            /\ ( /\ brandSave[s].phase = "branding"
                 /\ brandSave'[s].error )
               => /\ brandTable' = brandTable
                  /\ brandSave'[s].phase = "writing"
                  /\ brandSave'[s].brandId = NoId
            /\ ( /\ brandSave[s].phase = "writing"
                 /\ brandSave[s].error
                 /\ brandSave'[s] # brandSave[s] )
               => /\ brandSave[s].brandId = NoId
                  /\ brandTable' = brandTable
                  /\ brandProducts' = Append(brandProducts, [brand_id |-> NoId])
                  /\ brandUi'[s].brand_name = <<>>
                  /\ brandUi'[s].selected = NoId
                  /\ brandSave'[s].phase = "fetching"
      ]_vars

\* C27 witness: the brand Teva is in the table, the insert of the save for
\* the same name was refused, and the product is written without a brand
C27_Witness ==
    /\ brandSave["A"].phase = "fetching"
    /\ brandSave["A"].error
    /\ brandSave["A"].name = Teva
    /\ Len(brandTable) = 1
    /\ Len(brandProducts) = 2
    /\ brandProducts[2].brand_id = NoId
    /\ brandUi["A"].brand_name = <<>>

----------------------------------------------------------------------------
(* Properties of a save whose upload fails *)

\* C26: a save whose upload is answered with an error goes on to its write,
\* and the write puts into the product the image_url the form held, null
\* when it held none; the write of an edit therefore leaves the table as it
\* was, the product's image_url included.
C26_UploadErrorKeepsImage ==
    [][ /\ imgSave.phase = "uploading" => imgSave'.phase \in {"uploading", "writing"}
        /\ ( /\ imgSave.phase = "writing"
             /\ imgSave.failed
             /\ imgSave' # imgSave )
           => /\ imgSave'.phase = "fetching"
              /\ \E i \in 1..Len(imgTable') :
                     /\ imgTable'[i].id =
                            IF imgSave.form.id # NoId THEN imgSave.form.id ELSE imgNextId
                     /\ imgTable'[i].image_url = OrElse(imgSave.form.image_url, Null)
              /\ imgSave.form.id # NoId => imgTable' = imgTable
      ]_vars

----------------------------------------------------------------------------
(* Properties of the auto-logout *)

\* C21: a check that found a session whose expires_at has passed calls
\* signOut, and while AuthProvider stays mounted the auth context's user is
\* null at some later time; a check that found no session or a session that
\* has not expired ends without signing out; and no check starts once
\* AuthProvider is unmounted.
C21_AutoLogout ==
    /\ [][ /\ ( /\ check.phase = "read"
                /\ check'.phase = "none" )
              => IF check.found = "expired"
                 THEN session' = NoUser /\ check'.signedOut
                 ELSE /\ ~check'.signedOut
                      /\ session' = session
                      /\ events' = events
           /\ ~authMounted => ~(check.phase = "none" /\ check'.phase = "reading")
         ]_vars
    /\ (authMounted /\ check.phase = "read" /\ check.found = "expired")
           ~> (user = NoUser \/ ~authMounted)

\* C21 witness: a check has found the expired session of a signed-in user
\* and signed out, the listener has been notified and the user is null
C21_Witness ==
    /\ authMounted
    /\ authInit.phase = "done"
    /\ check.signedOut
    /\ session = NoUser
    /\ events = <<>>
    /\ user = NoUser
    /\ ~authLoading

----------------------------------------------------------------------------
(* Specifications *)

GenIdle ==
    /\ genProducts = <<>>
    /\ genCat = Null
    /\ genCode = <<>>

ViewIdle ==
    /\ page = "Catalog"
    /\ viewProducts = <<>>
    /\ search = <<>>
    /\ filtered = <<>>
    /\ grouped = Grouped(<<>>, categoriesOrder)
    /\ sections = <<>>

UtilIdle ==
    /\ affUrl = Null
    /\ affOut = NotCalled
    /\ affAgain = NotCalled
    /\ price = Undefined
    /\ priceVariant = "brands"
    /\ localeSep = ","
    /\ priceOut = NotCalled

EarlyCatalogIdle ==
    /\ earlyProducts = <<>>
    /\ earlySearch = <<>>
    /\ earlyFiltered = Gave(<<>>)
    /\ earlyPrices = Gave(<<>>)

BrandIdle ==
    /\ brandTable = <<>>
    /\ brandNextId = 1
    /\ brandProducts = <<>>
    /\ brandsList = [s \in Sessions |-> <<>>]
    /\ brandUi = [s \in Sessions |-> EmptyBrandUi]
    /\ brandSave = [s \in Sessions |-> NoBrandSave]
    /\ brandFetch = [s \in Sessions |-> NoFetch]

ShopIdle ==
    /\ shopTable = <<>>
    /\ shopNextId = 1
    /\ catProducts = <<>>
    /\ catFetch = NoCatalogFetch
    /\ catSeen = <<>>

AuthIdle ==
    /\ authVariant = "brands"
    /\ session = NoUser
    /\ user = NoUser
    /\ authLoading = TRUE
    /\ authInit = [phase |-> "sent", user |-> NoUser]
    /\ events = <<>>
    /\ navPending = NoPath
    /\ visited = "/catalog"
    /\ path = "/catalog"
    /\ screen = "Loading session..."
    /\ expired = FALSE
    /\ authMounted = TRUE
    /\ check = NoCheck

ImgIdle ==
    /\ imgTable = <<>>
    /\ imgNextId = 1
    /\ imgProducts = <<>>
    /\ imgForm = EmptyImgForm
    /\ imgFile = NoFile
    /\ imgSave = NoImgSave
    /\ imgFetch = [phase |-> "none", data |-> <<>>]

ExtIdle ==
    /\ UtilIdle /\ EarlyGenInit /\ EarlyCatalogIdle /\ BrandIdle /\ ShopIdle /\ AuthIdle
    /\ ImgIdle

GenSpecInit == GenInit /\ ViewIdle /\ DashInit({}) /\ ExtIdle

\* the code generator alone
SpecGen == GenSpecInit /\ [][GenNext]_vars

ViewSpecInit == ViewInit /\ GenIdle /\ DashInit({}) /\ ExtIdle

\* the Dashboard's and the Catalog's view alone
SpecView == ViewSpecInit /\ [][ViewNext]_vars

SoloInit == DashInit({"A"}) /\ GenIdle /\ ViewIdle /\ ExtIdle

SoloNext == SessionNext("A")

\* one Dashboard session, no other writer
SpecSolo == SoloInit /\ [][SoloNext]_vars

\* what a session does that only creates products
CreateNext(s) ==
    \/ \E c \in FormCategories : SetCategory(s, c)
    \/ handleSaveOrUpdate(s)
    \/ SaveWritten(s)
    \/ SaveFetchServed(s)
    \/ SaveFetched(s)
    \/ FetchServed(s)
    \/ \E data \in BagToSet(fetching[s].served) : Fetched(s, data)

Init == DashInit(Sessions) /\ GenIdle /\ ViewIdle /\ ExtIdle

Next == \E s \in Sessions : CreateNext(s)

\* two Dashboard sessions creating products in the same table
Spec == Init /\ [][Next]_vars

UtilSpecInit ==
    /\ UtilInit
    /\ GenIdle /\ ViewIdle /\ DashInit({}) /\ EarlyGenInit /\ EarlyCatalogIdle /\ BrandIdle
    /\ ShopIdle /\ AuthIdle /\ ImgIdle

\* normalizeAffiliate and formatPrice alone
SpecUtil == UtilSpecInit /\ [][UtilNext]_vars

EarlyGenSpecInit ==
    /\ EarlyGenInit
    /\ EarlyCatalogIdle /\ UtilIdle /\ GenIdle /\ ViewIdle /\ DashInit({}) /\ BrandIdle
    /\ ShopIdle /\ AuthIdle /\ ImgIdle

\* generateCode and handleSave of the earliest variant
SpecEarlyGen == EarlyGenSpecInit /\ [][EarlyGenNext]_vars

EarlyCatalogSpecInit ==
    /\ EarlyCatalogInit
    /\ affUrl = Null /\ affOut = NotCalled /\ affAgain = NotCalled
    /\ price = Undefined /\ priceVariant = "brands" /\ priceOut = NotCalled
    /\ EarlyGenInit /\ GenIdle /\ ViewIdle /\ DashInit({}) /\ BrandIdle /\ ShopIdle
    /\ AuthIdle /\ ImgIdle

\* the Catalog of the earliest variant
SpecEarlyCatalog == EarlyCatalogSpecInit /\ [][EarlyCatalogNext]_vars

StoredSpecInit == StoredInit /\ GenIdle /\ ViewIdle /\ ExtIdle

\* one Dashboard session creating and editing over a table with a stored product
SpecStored == StoredSpecInit /\ [][StoredNext]_vars

BrandSpecInit ==
    /\ BrandInit
    /\ GenIdle /\ ViewIdle /\ DashInit({}) /\ UtilIdle /\ EarlyGenInit /\ EarlyCatalogIdle
    /\ ShopIdle /\ AuthIdle /\ ImgIdle

\* one Dashboard session saving products with brands
SpecBrand == BrandSpecInit /\ [][BrandNext]_vars

ShopSpecInit ==
    /\ ShopInit
    /\ GenIdle /\ ViewIdle /\ DashInit({}) /\ UtilIdle /\ EarlyGenInit /\ EarlyCatalogIdle
    /\ BrandIdle /\ AuthIdle /\ ImgIdle

\* the public Catalog and the admin's writes
SpecShop == ShopSpecInit /\ [][ShopNext]_vars

AuthSpecInit ==
    /\ AuthInit
    /\ GenIdle /\ ViewIdle /\ DashInit({}) /\ UtilIdle /\ EarlyGenInit /\ EarlyCatalogIdle
    /\ BrandIdle /\ ShopIdle /\ ImgIdle

\* the auth context and the routes
SpecAuth == AuthSpecInit /\ [][AuthNext]_vars

CreateSoloNext ==
    \/ \E c \in FormCategories : SetCategory("A", c)
    \/ handleSaveOrUpdate("A")
    \/ SaveWritten("A")
    \/ SaveFetchServed("A")
    \/ SaveFetched("A")
    \/ UserChanged("A")
    \/ FetchServed("A")
    \/ \E data \in BagToSet(fetching["A"].served) : Fetched("A", data)

\* one Dashboard session that only creates products, no other writer
SpecCreate == SoloInit /\ [][CreateSoloNext]_vars

ImgSpecInit ==
    /\ ImgInit
    /\ GenIdle /\ ViewIdle /\ DashInit({}) /\ UtilIdle /\ EarlyGenInit /\ EarlyCatalogIdle
    /\ BrandIdle /\ ShopIdle /\ AuthIdle

\* one Dashboard session saving products with images
SpecImage == ImgSpecInit /\ [][ImgNext]_vars

AutoLogoutSpecInit ==
    /\ AutoLogoutInit
    /\ GenIdle /\ ViewIdle /\ DashInit({}) /\ UtilIdle /\ EarlyGenInit /\ EarlyCatalogIdle
    /\ BrandIdle /\ ShopIdle /\ ImgIdle

\* the auth context with its auto-logout interval.  A check that has found
\* an expired session goes on to signOut, and a notification is delivered
\* to the subscribed listener.
SpecAutoLogout ==
    /\ AutoLogoutSpecInit
    /\ [][AutoLogoutNext]_vars
    /\ WF_vars(CheckSignsOut)
    /\ WF_vars(AuthStateChanged)

====
